---- MODULE Spec2Model ----
(***************************************************************************)
(* Model of the NBA API bridge (python-bridge/app): the game-id mapper,    *)
(* the ETag controller, the Redis lookup of game metadata and the HTTP     *)
(* handlers of the schedule, summary and play-by-play endpoints.           *)
(*                                                                         *)
(* Python str values on which the code works character by character       *)
(* (isdigit, strip, len) are sequences of one-character strings; text that *)
(* is only built and compared (JSON documents, ETags, HTTP details) is a   *)
(* TLA+ string.                                                            *)
(***************************************************************************)
EXTENDS Integers, Sequences, FiniteSets, TLC

VARIABLES
    call,           \* the last call of a helper: [fn, arg, result]
    kept,           \* an earlier call of the same helper, kept for comparison
    _redis_client,  \* redis_client.py: the module-level singleton handle
    redis_pkg,      \* environment: "missing" (import failed), "bad_url" or "ok"
    redis_up,       \* environment: the Redis server answers
    store,          \* environment: the Redis keys and their stored text
    upstream,       \* environment: what the nba_api endpoints give now
    today           \* environment: the date in US Eastern time

callVars == <<call, kept>>
storeVars == <<_redis_client, redis_pkg, redis_up, store>>
upstreamVars == <<upstream, today>>
vars == <<call, kept, _redis_client, redis_pkg, redis_up, store, upstream, today>>

(***************************************************************************)
(* Bounds                                                                  *)
(***************************************************************************)
MaxStrLen == 2      \* longest freely enumerated identifier string

(***************************************************************************)
(* Characters.  Non-ASCII characters are named by their code point.        *)
(***************************************************************************)
AsciiDigits == {"0", "1", "2", "3", "4", "5", "6", "7", "8", "9"}

\* Characters for which str.isdigit() holds without being ASCII digits:
\* ARABIC-INDIC DIGIT THREE and SUPERSCRIPT TWO.
UnicodeDigits == {"U+0663", "U+00B2"}

\* Characters removed by str.strip(): those for which str.isspace() holds.
Whitespace == {" ", "\t", "\n", "U+00A0"}

\* Outcome of a Python call: a returned value or a raised exception.
Return(v) == [ok |-> TRUE, value |-> v]
Raise(e) == [ok |-> FALSE, exc |-> e]

(***************************************************************************)
(* JSON values.  A dict is the sequence of its <<key, value>> items in     *)
(* insertion order, with pairwise different keys, as a Python dict is.     *)
(***************************************************************************)
Null == [t |-> "null"]
Bool(b) == [t |-> "bool", b |-> b]
Num(n) == [t |-> "num", n |-> n]
Str(s) == [t |-> "str", s |-> s]
List(items) == [t |-> "list", items |-> items]
Dict(kv) == [t |-> "dict", kv |-> kv]

Keys(d) == {d.kv[i][1] : i \in 1..Len(d.kv)}
HasKey(d, k) == d.t = "dict" /\ k \in Keys(d)
\* d[k]
Item(d, k) == d.kv[CHOOSE i \in 1..Len(d.kv) : d.kv[i][1] = k][2]
\* d.get(k, default)
Get(d, k, default) == IF HasKey(d, k) THEN Item(d, k) ELSE default

\* Every key of the model, in the order of Python's str comparison (by code
\* point), which is the order sorted() gives the items of a dict.
KeyOrder ==
    <<"_source", "a", "actionNumber", "actionType", "action_type", "actions", "alias",
      "away", "awayTeam", "b", "city", "clock", "code", "date", "description", "detail",
      "event_num", "events", "game", "gameClock", "gameDate", "gameEt", "gameId",
      "gameLeaders", "gameStatus", "gameStatusText", "gameTimeUTC", "game_status",
      "games", "headers", "home", "homeLeaders", "homeTeam", "id", "inBonus",
      "in_bonus", "leaders", "losses", "meta", "name", "nba_game_id", "period",
      "periods", "personId", "playerName", "playerNameI", "player_name",
      "player_name_i", "points", "resource", "resultSets", "rowSet", "scheduled",
      "score", "scoreAway", "scoreHome", "score_away", "score_home", "scoreboard",
      "sequence", "shotResult", "status", "subType", "teamCity", "teamId", "teamName",
      "teamTricode", "team_id", "team_name", "team_tricode", "timeoutsRemaining",
      "timeouts_remaining", "wins", "x", "y">>

KeyRanks ==
    [k \in {KeyOrder[i] : i \in 1..Len(KeyOrder)} |->
        CHOOSE i \in 1..Len(KeyOrder) : KeyOrder[i] = k]

KeyRank(k) == KeyRanks[k]

RECURSIVE InsertItem(_, _)
InsertItem(item, sorted) ==
    IF sorted = <<>> THEN <<item>>
    ELSE IF KeyRank(item[1]) < KeyRank(Head(sorted)[1]) THEN <<item>> \o sorted
    ELSE <<Head(sorted)>> \o InsertItem(item, Tail(sorted))

\* sorted(dct.items())
RECURSIVE SortItems(_)
SortItems(kv) == IF kv = <<>> THEN <<>> ELSE InsertItem(Head(kv), SortItems(Tail(kv)))

\* The text of a str given as its sequence of pieces.
RECURSIVE Cat(_)
Cat(s) == IF s = <<>> THEN "" ELSE Head(s) \o Cat(Tail(s))

\* separator.join(parts)
RECURSIVE Join(_, _)
Join(parts, separator) ==
    IF parts = <<>> THEN ""
    ELSE IF Len(parts) = 1 THEN parts[1]
    ELSE parts[1] \o separator \o Join(Tail(parts), separator)

(***************************************************************************)
(* app/utils/game_id_mapper.py                                             *)
(***************************************************************************)
\* str.isdigit(): every character is a digit and there is at least one.
isdigit(s) == Len(s) > 0 /\ \A i \in 1..Len(s) : s[i] \in AsciiDigits \cup UnicodeDigits

RECURSIVE lstrip(_)
lstrip(s) == IF s # <<>> /\ Head(s) \in Whitespace THEN lstrip(Tail(s)) ELSE s

RECURSIVE rstrip(_)
rstrip(s) ==
    IF s # <<>> /\ s[Len(s)] \in Whitespace THEN rstrip(SubSeq(s, 1, Len(s) - 1)) ELSE s

\* A trim that forgets the trailing whitespace.
strip_leading_only(s) == lstrip(s)

\* str.strip() without arguments.
strip(s) == rstrip(lstrip(s))

NBA_GAME_ID_NAMESPACE == "6ba7b810-9dad-11d1-80b4-00c04fd430c8"

\* str(uuid.uuid5(namespace, name)): the SHA-1 based name hash is kept
\* symbolic, a string that starts with the hash marker and is determined by
\* the namespace and the name (distinct names give distinct identifiers).
uuid5(namespace, name) == <<"uuid5:" \o namespace \o ":">> \o name

IdLen == 10

is_nba_game_id(game_id) == game_id # <<>> /\ isdigit(game_id) /\ Len(game_id) = IdLen

\* The emptiness test applied to the raw input instead of the trimmed one.
nba_game_id_to_uuid_raw_check(nba_game_id) ==
    IF nba_game_id = <<>>
    THEN Raise("ValueError")
    ELSE Return(uuid5(NBA_GAME_ID_NAMESPACE, strip(nba_game_id)))

nba_game_id_to_uuid(nba_game_id) ==
    LET normalized_id == strip(nba_game_id)
    IN  IF normalized_id = <<>>
        THEN Raise("ValueError")
        ELSE Return(uuid5(NBA_GAME_ID_NAMESPACE, normalized_id))

(***************************************************************************)
(* Inputs of the mapper                                                    *)
(***************************************************************************)
Alphabet == {"0", "a", "A", " "}

StrUpTo(n) == UNION {[1..k -> Alphabet] : k \in 0..n}

Rep(c, n) == [i \in 1..n |-> c]

\* Identifiers around the provider length: a run of one digit with one
\* position replaced.
NearIds ==
    {[Rep(c, n) EXCEPT ![i] = d] :
        c \in {"0", "U+0663"}, n \in {IdLen - 1, IdLen, IdLen + 1},
        i \in {1, IdLen \div 2, IdLen - 1}, d \in Alphabet \cup {"7", "U+00B2"}}

IdInputs == StrUpTo(MaxStrLen) \cup NearIds

NoCall == [fn |-> "none"]

InitMapper ==
    /\ call = NoCall /\ kept = NoCall
    /\ _redis_client = Null /\ redis_pkg = "ok" /\ redis_up = TRUE
    /\ store = <<>>
    /\ upstream = <<>> /\ today = <<>>

IsNbaGameId ==
    \E s \in IdInputs :
        /\ call' = [fn |-> "is_nba_game_id", arg |-> s, result |-> Return(is_nba_game_id(s))]
        /\ UNCHANGED <<kept, storeVars, upstreamVars>>

NbaGameIdToUuid ==
    \E s \in StrUpTo(MaxStrLen) \cup {Rep("0", IdLen), <<" ">> \o Rep("0", IdLen)} :
        /\ call' = [fn |-> "nba_game_id_to_uuid", arg |-> s, result |-> nba_game_id_to_uuid(s)]
        /\ UNCHANGED <<kept, storeVars, upstreamVars>>

\* The caller holds on to the result of the last call.
Keep ==
    /\ call.fn = "nba_game_id_to_uuid"
    /\ kept # call
    /\ kept' = call
    /\ UNCHANGED <<call, storeVars, upstreamVars>>

NextMapper == IsNbaGameId \/ NbaGameIdToUuid \/ Keep

SpecMapper == InitMapper /\ [][NextMapper]_vars


(***************************************************************************)
(* app/utils/etag.py                                                       *)
(***************************************************************************)
\* json.dumps(v, sort_keys=sort_keys) with the default separators.  The
\* strings of the model hold no character that JSON escapes.
RECURSIVE json_dumps(_, _)
json_dumps(v, sort_keys) ==
    CASE v.t = "null" -> "null"
      [] v.t = "bool" -> IF v.b THEN "true" ELSE "false"
      [] v.t = "num"  -> ToString(v.n)
      [] v.t = "str"  -> "\"" \o Cat(v.s) \o "\""
      [] v.t = "list" ->
            "[" \o Join([i \in 1..Len(v.items) |-> json_dumps(v.items[i], sort_keys)], ", ") \o "]"
      [] v.t = "dict" ->
            LET items == IF sort_keys THEN SortItems(v.kv) ELSE v.kv
            IN  "{" \o Join([i \in 1..Len(items) |->
                                "\"" \o items[i][1] \o "\": " \o json_dumps(items[i][2], sort_keys)],
                            ", ") \o "}"

\* hashlib.sha256(text.encode()).hexdigest()[:16]: the digest is kept
\* symbolic, a string determined by the hashed text.
sha256_hex16(text) == "sha256[:16](" \o text \o ")"

\* json.dumps that sorts the keys of the outermost dict only.
calculate_etag_top_level_sort(data) ==
    LET json_str == json_dumps(Dict(SortItems(data.kv)), FALSE)
    IN  "\"" \o sha256_hex16(json_str) \o "\""

calculate_etag(data) ==
    LET json_str == json_dumps(data, TRUE)
    IN  "\"" \o sha256_hex16(json_str) \o "\""

(***************************************************************************)
(* Payloads given to calculate_etag                                        *)
(***************************************************************************)
MaxNest == 2        \* nesting depth of the values inside a payload

\* Values nested up to depth d: numbers, two-key dicts in both insertion
\* orders, and one-element lists.
RECURSIVE Nested(_)
Nested(d) ==
    IF d = 0 THEN {Num(1), Num(2)}
    ELSE Nested(d - 1)
         \cup {Dict(<< <<"x", u>>, <<"y", Num(2)>> >>) : u \in Nested(d - 1)}
         \cup {Dict(<< <<"y", Num(2)>>, <<"x", u>> >>) : u \in Nested(d - 1)}
         \cup {List(<<u>>) : u \in Nested(d - 1)}

Payloads ==
    {Dict(<< <<"a", u>>, <<"b", Num(1)>> >>) : u \in Nested(MaxNest)}
    \cup {Dict(<< <<"b", Num(1)>>, <<"a", u>> >>) : u \in Nested(MaxNest)}

CalculateEtag ==
    \E data \in Payloads :
        /\ call' = [fn |-> "calculate_etag", arg |-> data, result |-> calculate_etag(data)]
        /\ UNCHANGED <<kept, storeVars, upstreamVars>>

\* The client holds on to the token of the last call.
KeepEtag ==
    /\ call.fn = "calculate_etag"
    /\ kept # call
    /\ kept' = call
    /\ UNCHANGED <<call, storeVars, upstreamVars>>

NextEtag == CalculateEtag \/ KeepEtag

SpecEtag == InitMapper /\ [][NextEtag]_vars

(***************************************************************************)
(* app/utils/redis_client.py                                               *)
(***************************************************************************)
\* Python truth value of a parsed JSON value.
Truthy(v) ==
    CASE v.t = "null" -> FALSE
      [] v.t = "bool" -> v.b
      [] v.t = "num"  -> v.n # 0
      [] v.t = "str"  -> v.s # <<>>
      [] v.t = "list" -> v.items # <<>>
      [] v.t = "dict" -> v.kv # <<>>

\* needle in text, for two str values.
IsSubstring(needle, text) ==
    \E i \in 1..(Len(text) - Len(needle) + 1) : SubSeq(text, i, i + Len(needle) - 1) = needle

\* The text stored under a Redis key: none, the empty string, text that is
\* not JSON, or the JSON text of a value.
Absent == [text |-> "absent"]
EmptyText == [text |-> "empty"]
Garbage == [text |-> "garbage"]
JsonText(v) == [text |-> "json", value |-> v]

\* json.loads(text)
json_loads(text) ==
    IF text.text = "json" THEN Return(text.value) ELSE Raise("JSONDecodeError")

\* The handle made by redis.from_url; ping_ok tells whether its connection
\* test passed.
\* serial tells the handles of one process apart: it is the number of handles
\* made so far.
Handle(ping_ok) ==
    [t |-> "redis", ping_ok |-> ping_ok,
     serial |-> IF _redis_client = Null THEN 1 ELSE _redis_client.serial + 1]

\* A handle whose connection test failed is made anew.
get_redis_client_reconnect ==
    IF _redis_client = Null \/ ~_redis_client.ping_ok
    THEN IF redis_pkg = "missing" THEN [out |-> Raise("ImportError"), client |-> Null]
         ELSE IF redis_pkg = "bad_url" THEN [out |-> Raise("ValueError"), client |-> Null]
         ELSE IF redis_up THEN [out |-> Return(Handle(TRUE)), client |-> Handle(TRUE)]
         ELSE [out |-> Raise("ConnectionError"), client |-> Handle(FALSE)]
    ELSE [out |-> Return(_redis_client), client |-> _redis_client]

\* A handle whose connection test failed goes on failing.
get_redis_client_failure_kept ==
    IF _redis_client = Null
    THEN IF redis_pkg = "missing" THEN [out |-> Raise("ImportError"), client |-> Null]
         ELSE IF redis_pkg = "bad_url" THEN [out |-> Raise("ValueError"), client |-> Null]
         ELSE IF redis_up THEN [out |-> Return(Handle(TRUE)), client |-> Handle(TRUE)]
         ELSE [out |-> Raise("ConnectionError"), client |-> Handle(FALSE)]
    ELSE IF ~_redis_client.ping_ok
    THEN [out |-> Raise("ConnectionError"), client |-> _redis_client]
    ELSE [out |-> Return(_redis_client), client |-> _redis_client]

\* get_redis_client(): its outcome and the value it leaves in _redis_client.
\* The global is assigned before the connection test.
get_redis_client ==
    IF _redis_client = Null
    THEN IF redis_pkg = "missing" THEN [out |-> Raise("ImportError"), client |-> Null]
         ELSE IF redis_pkg = "bad_url" THEN [out |-> Raise("ValueError"), client |-> Null]
         ELSE IF redis_up THEN [out |-> Return(Handle(TRUE)), client |-> Handle(TRUE)]
         ELSE [out |-> Raise("ConnectionError"), client |-> Handle(FALSE)]
    ELSE [out |-> Return(_redis_client), client |-> _redis_client]

\* redis_client.get(key) with decode_responses=True
redis_get(key) ==
    IF ~redis_up THEN Raise("ConnectionError")
    ELSE IF key \in DOMAIN store /\ store[key] # Absent THEN Return(store[key])
    ELSE Return(Absent)

MetaKey(game_uuid) == "game:meta:" \o Cat(game_uuid)

\* get_game_metadata(game_uuid): every exception is logged and becomes None.
get_game_metadata(game_uuid) ==
    LET c == get_redis_client
        key == MetaKey(game_uuid)
        metadata_json == redis_get(key)
    IN  [client |-> c.client,
         out |->
            IF ~c.out.ok THEN Return(Null)
            ELSE IF ~metadata_json.ok THEN Return(Null)
            ELSE IF metadata_json.value \notin {Absent, EmptyText}
                 THEN IF json_loads(metadata_json.value).ok
                      THEN json_loads(metadata_json.value)
                      ELSE Return(Null)
                 ELSE Return(Null)]

\* 'nba_game_id' in metadata, for a truthy metadata
ContainsField(metadata) ==
    CASE metadata.t = "dict" -> Return(HasKey(metadata, "nba_game_id"))
      [] metadata.t = "list" ->
            Return(\E i \in 1..Len(metadata.items) : metadata.items[i] = Str(<<"nba_game_id">>))
      [] metadata.t = "str" -> Return(IsSubstring(<<"nba_game_id">>, metadata.s))
      [] OTHER -> Raise("TypeError")

\* metadata['nba_game_id']
Subscript(metadata) ==
    IF metadata.t = "dict" THEN Return(Item(metadata, "nba_game_id")) ELSE Raise("TypeError")

get_nba_game_id_from_uuid(game_uuid) ==
    LET m == get_game_metadata(game_uuid)
        metadata == m.out.value
    IN  [client |-> m.client,
         out |->
            IF Truthy(metadata)
            THEN IF ~ContainsField(metadata).ok THEN ContainsField(metadata)
                 ELSE IF ContainsField(metadata).value THEN Subscript(metadata)
                 ELSE Return(Null)
            ELSE Return(Null)]

(***************************************************************************)
(* The store and the lookups                                               *)
(***************************************************************************)
NbaA == <<"0", "0", "2", "2", "3", "0", "0", "1", "2", "3">>
NbaB == <<"0", "0", "2", "2", "3", "0", "0", "4", "5", "6">>

UuidA == nba_game_id_to_uuid(NbaA).value
UuidB == nba_game_id_to_uuid(NbaB).value

\* An identifier that is neither a provider id nor derived from one.
Opaque == <<"n", "o", "-", "s", "u", "c", "h">>

StoreKeys == {MetaKey(UuidA), MetaKey(UuidB)}

\* Records as the ingestion side writes them, and every other kind of text
\* a key may hold.
StoredTexts ==
    {Absent, EmptyText, Garbage,
     JsonText(Dict(<< <<"nba_game_id", Str(NbaA)>>, <<"status", Str(<<"scheduled">>)>> >>)),
     JsonText(Dict(<< <<"status", Str(<<"scheduled">>)>>, <<"nba_game_id", Str(NbaB)>> >>)),
     JsonText(Dict(<< <<"status", Str(<<"scheduled">>)>> >>)),
     JsonText(Dict(<< <<"nba_game_id", Null>> >>)),
     JsonText(Dict(<<>>)),
     JsonText(List(<<Str(<<"nba_game_id">>)>>)),
     JsonText(List(<<Str(NbaA)>>)),
     JsonText(List(<<>>)),
     JsonText(Str(<<"nba_game_id">>)),
     JsonText(Str(<<"my ", "nba_game_id">>)),
     JsonText(Str(NbaA)),
     JsonText(Num(5)),
     JsonText(Num(0)),
     JsonText(Bool(TRUE)),
     JsonText(Bool(FALSE)),
     JsonText(Null)}

InitStore ==
    /\ call = NoCall /\ kept = NoCall
    /\ _redis_client = Null
    /\ redis_pkg \in {"missing", "bad_url", "ok"}
    /\ redis_up \in BOOLEAN
    /\ store = [k \in StoreKeys |-> Absent]
    /\ upstream = <<>> /\ today = <<>>

\* The ingestion side writes, replaces or expires a key.  call and kept
\* describe calls made in the present environment, so a change of the
\* environment forgets them.
SetStore ==
    \E k \in StoreKeys, text \in StoredTexts :
        /\ store[k] # text
        /\ store' = [store EXCEPT ![k] = text]
        /\ call' = NoCall /\ kept' = NoCall
        /\ UNCHANGED <<_redis_client, redis_pkg, redis_up, upstreamVars>>

\* The Redis server goes down or comes back.
RedisUpDown ==
    /\ redis_up' = ~redis_up
    /\ call' = NoCall /\ kept' = NoCall
    /\ UNCHANGED <<_redis_client, redis_pkg, store, upstreamVars>>

GetNbaGameIdFromUuid ==
    \E game_uuid \in {UuidA, UuidB, Opaque} :
        LET r == get_nba_game_id_from_uuid(game_uuid)
        IN  /\ call' = [fn |-> "get_nba_game_id_from_uuid", arg |-> game_uuid, result |-> r.out]
            /\ _redis_client' = r.client
            /\ UNCHANGED <<kept, redis_pkg, redis_up, store, upstreamVars>>

NextStore == SetStore \/ RedisUpDown \/ GetNbaGameIdFromUuid

SpecStore == InitStore /\ [][NextStore]_vars

(***************************************************************************)
(* app/services/transformers.py                                            *)
(***************************************************************************)
\* str(v) and f"{v}" of a JSON value of the upstream data.
PyStr(v) ==
    CASE v.t = "str"  -> v
      [] v.t = "num"  -> Str(<<ToString(v.n)>>)
      [] v.t = "null" -> Str(<<"None">>)
      [] v.t = "bool" -> Str(<<IF v.b THEN "True" ELSE "False">>)
      [] OTHER -> Str(<<json_dumps(v, FALSE)>>)

\* str.lower() of one piece of text; pieces not listed hold no upper case.
LowerPiece(piece) ==
    CASE piece = "Final" -> "final"
      [] piece = "FINAL" -> "final"
      [] piece = "Live" -> "live"
      [] piece = "In Progress" -> "in progress"
      [] piece = "Postponed" -> "postponed"
      [] piece = "PPD" -> "ppd"
      [] piece = "Delayed" -> "delayed"
      [] piece = "ET" -> "et"
      [] piece = "PM" -> "pm"
      [] piece = "AM" -> "am"
      [] piece = "Q" -> "q"
      [] piece = "OT" -> "ot"
      [] piece = "H" -> "h"
      [] piece = "G" -> "g"
      [] piece = "Scheduled" -> "scheduled"
      [] piece = "TBD" -> "tbd"
      [] OTHER -> piece

lower(text) == [i \in 1..Len(text) |-> LowerPiece(text[i])]

\* needle in text, the needle being one piece.
In(needle, text) == IsSubstring(<<needle>>, text)

\* The period/clock test made before the text tests.
_map_game_status_clock_first(status_text, game_status, period, clock) ==
    IF game_status = Num(2) THEN Return(Str(<<"inprogress">>))
    ELSE IF game_status = Num(3) THEN Return(Str(<<"closed">>))
    ELSE IF period # Null /\ Truthy(clock) THEN Return(Str(<<"inprogress">>))
    ELSE IF Truthy(status_text) /\ status_text.t # "str" THEN Raise("AttributeError")
    ELSE
        LET status_text_lower == IF Truthy(status_text) THEN lower(status_text.s) ELSE <<>>
        IN  IF In("final", status_text_lower) THEN Return(Str(<<"closed">>))
            ELSE IF In("live", status_text_lower) \/ In("in progress", status_text_lower)
                 THEN Return(Str(<<"inprogress">>))
            ELSE IF In("postponed", status_text_lower) THEN Return(Str(<<"postponed">>))
            ELSE IF In("delayed", status_text_lower) THEN Return(Str(<<"delayed">>))
            ELSE Return(Str(<<"scheduled">>))

\* A text that no rule matches is passed on as the status.
_map_game_status_text_kept(status_text, game_status, period, clock) ==
    IF game_status = Num(2) THEN Return(Str(<<"inprogress">>))
    ELSE IF game_status = Num(3) THEN Return(Str(<<"closed">>))
    ELSE IF Truthy(status_text) /\ status_text.t # "str" THEN Raise("AttributeError")
    ELSE
        LET status_text_lower == IF Truthy(status_text) THEN lower(status_text.s) ELSE <<>>
        IN  IF In("final", status_text_lower) THEN Return(Str(<<"closed">>))
            ELSE IF In("live", status_text_lower) \/ In("in progress", status_text_lower)
                 THEN Return(Str(<<"inprogress">>))
            ELSE IF In("postponed", status_text_lower) THEN Return(Str(<<"postponed">>))
            ELSE IF In("delayed", status_text_lower) THEN Return(Str(<<"delayed">>))
            ELSE IF In("pm", status_text_lower) \/ In("am", status_text_lower)
                    \/ In("et", status_text_lower)
                 THEN Return(Str(<<"scheduled">>))
            ELSE IF period # Null /\ Truthy(clock) THEN Return(Str(<<"inprogress">>))
            ELSE Return(Str(status_text_lower))

\* _map_game_status(status_text, game_status, period, clock); the optional
\* arguments default to None.
_map_game_status(status_text, game_status, period, clock) ==
    IF game_status = Num(2) THEN Return(Str(<<"inprogress">>))
    ELSE IF game_status = Num(3) THEN Return(Str(<<"closed">>))
    ELSE IF Truthy(status_text) /\ status_text.t # "str" THEN Raise("AttributeError")
    ELSE
        LET status_text_lower == IF Truthy(status_text) THEN lower(status_text.s) ELSE <<>>
        IN  IF In("final", status_text_lower) THEN Return(Str(<<"closed">>))
            ELSE IF In("live", status_text_lower) \/ In("in progress", status_text_lower)
                 THEN Return(Str(<<"inprogress">>))
            ELSE IF In("postponed", status_text_lower) THEN Return(Str(<<"postponed">>))
            ELSE IF In("delayed", status_text_lower) THEN Return(Str(<<"delayed">>))
            ELSE IF In("pm", status_text_lower) \/ In("am", status_text_lower)
                    \/ In("et", status_text_lower)
                 THEN Return(Str(<<"scheduled">>))
            ELSE IF period # Null /\ Truthy(clock) THEN Return(Str(<<"inprogress">>))
            ELSE Return(Str(<<"scheduled">>))

\* Status texts of at most MaxPieces pieces, drawn from the words the
\* mapping looks for, in several cases, and from texts holding none of them.
MaxPieces == 2
StatusPieces ==
    {"Final", "FINAL", "Live", "In Progress", "Postponed", "Delayed", "pm", "AM", "ET",
     "Q4 0:00", "Halftime"}
StatusTexts ==
    {Null} \cup {Str(s) : s \in UNION {[1..n -> StatusPieces] : n \in 0..MaxPieces}}
StatusCodes == {Null, Num(1), Num(2), Num(3)}
Periods == {Null, Num(0), Num(4)}
Clocks == {Null, Str(<<>>), Str(<<"0:00">>)}

MapGameStatus ==
    \E status_text \in StatusTexts, game_status \in StatusCodes,
       period \in Periods, clock \in Clocks :
        /\ call = NoCall
        /\ call' = [fn |-> "_map_game_status",
                    arg |-> [status_text |-> status_text, game_status |-> game_status,
                             period |-> period, clock |-> clock],
                    result |-> _map_game_status(status_text, game_status, period, clock)]
        /\ UNCHANGED <<kept, storeVars, upstreamVars>>

\* The caller has taken the status.
StatusTaken ==
    /\ call # NoCall
    /\ call' = NoCall
    /\ UNCHANGED <<kept, storeVars, upstreamVars>>

NextStatus == MapGameStatus \/ StatusTaken

SpecStatus == InitMapper /\ [][NextStatus]_vars

\* v[i] for a list or a str, i counted from 0.
Index(v, i) == IF v.t = "list" THEN v.items[i + 1] ELSE Str(<<v.s[i + 1]>>)

\* a == b for two values of the upstream data: strs are compared as texts.
Eq(a, b) == IF a.t = "str" /\ b.t = "str" THEN Cat(a.s) = Cat(b.s) ELSE a = b

\* The items a for loop visits: of a list its items, of a dict its keys, of
\* a str its characters; other values are not iterable.
IterItems(v) ==
    CASE v.t = "list" -> Return(v.items)
      [] v.t = "dict" -> Return([i \in 1..Len(v.kv) |-> Str(<<v.kv[i][1]>>)])
      [] v.t = "str"  -> Return([i \in 1..Len(v.s) |-> Str(<<v.s[i]>>)])
      [] OTHER -> Raise("TypeError")

\* for rs in result_sets: if rs.get('name') == name: found = rs.get('rowSet',
\* []); break.  Returns the row set, or None when no result set has the name.
RECURSIVE FindResultSet(_, _)
FindResultSet(result_sets, name) ==
    IF result_sets = <<>> THEN Return(Null)
    ELSE IF Head(result_sets).t # "dict" THEN Raise("AttributeError")
    ELSE IF Eq(Get(Head(result_sets), "name", Null), Str(<<name>>))
         THEN Return(Get(Head(result_sets), "rowSet", List(<<>>)))
    ELSE FindResultSet(Tail(result_sets), name)

\* The team block built from a live-scoreboard team (lines 93-106 and
\* 377-392); team_data is a dict.
LiveTeam(team_data) ==
    Dict(<< <<"id", PyStr(Get(team_data, "teamId", Str(<<>>)))>>,
            <<"name", Str(strip(PyStr(Get(team_data, "teamCity", Str(<<>>))).s \o <<" ">>
                                \o PyStr(Get(team_data, "teamName", Str(<<>>))).s))>>,
            <<"alias", Get(team_data, "teamTricode", Str(<<>>))>>,
            <<"city", Get(team_data, "teamCity", Str(<<>>))>>,
            <<"team_name", Get(team_data, "teamName", Str(<<>>))>>,
            <<"score", Get(team_data, "score", Null)>>,
            <<"wins", Get(team_data, "wins", Null)>>,
            <<"losses", Get(team_data, "losses", Null)>>,
            <<"timeouts_remaining", Get(team_data, "timeoutsRemaining", Null)>>,
            <<"in_bonus", Get(team_data, "inBonus", Null)>>,
            <<"periods", Get(team_data, "periods", List(<<>>))>> >>)

\* d[k] = v on a dict: replaces the value of an existing key in place,
\* appends a new key.
SetItem(d, k, v) ==
    IF HasKey(d, k)
    THEN Dict([i \in 1..Len(d.kv) |-> IF d.kv[i][1] = k THEN <<k, v>> ELSE d.kv[i]])
    ELSE Dict(d.kv \o << <<k, v>> >>)

\* The conditional additions of a summary (lines 413-427).
SummaryExtras(summary, game) ==
    LET s1 == IF Truthy(Get(game, "period", Null))
              THEN SetItem(summary, "period", Item(game, "period")) ELSE summary
        s2 == IF Truthy(Get(game, "gameClock", Null))
              THEN SetItem(s1, "clock", Item(game, "gameClock")) ELSE s1
        s3 == IF Truthy(Get(game, "gameStatus", Null))
              THEN SetItem(s2, "game_status", Item(game, "gameStatus")) ELSE s2
        game_leaders == Get(game, "gameLeaders", Dict(<<>>))
    IN  IF Truthy(game_leaders)
        THEN IF game_leaders.t # "dict" THEN Raise("AttributeError")
             ELSE Return(SetItem(s3, "leaders",
                        Dict(<< <<"home", Get(game_leaders, "homeLeaders", Dict(<<>>))>>,
                                <<"away", Get(game_leaders, "awayLeaders", Dict(<<>>))>> >>)))
        ELSE Return(s3)

\* transform_boxscore_to_summary(boxscore_data, game_id); boxscore_data is a
\* dict, as every source of the client returns one.
transform_boxscore_to_summary(boxscore_data, game_id) ==
    LET summary == Dict(<< <<"id", game_id>>, <<"status", Str(<<"inprogress">>)>>,
                           <<"home", Dict(<<>>)>>, <<"away", Dict(<<>>)>> >>)
        game == Get(boxscore_data, "game", Null)
        source == Get(boxscore_data, "_source", Null)
    IN  IF Eq(source, Str(<<"live_scoreboard">>)) /\ Truthy(game)
        THEN IF game.t # "dict" THEN Raise("AttributeError")
             ELSE LET status == _map_game_status(Get(game, "gameStatusText", Str(<<>>)),
                                                 Get(game, "gameStatus", Null),
                                                 Get(game, "period", Null),
                                                 Get(game, "gameClock", Null))
                      home_team == Get(game, "homeTeam", Dict(<<>>))
                      away_team == Get(game, "awayTeam", Dict(<<>>))
                  IN  IF ~status.ok THEN status
                      ELSE IF home_team.t # "dict" \/ away_team.t # "dict"
                           THEN Raise("AttributeError")
                      ELSE SummaryExtras(
                              SetItem(SetItem(SetItem(summary, "status", status.value),
                                              "home", LiveTeam(home_team)),
                                      "away", LiveTeam(away_team)),
                              game)
        ELSE IF Truthy(game) /\ ~Truthy(source)
        THEN IF game.t # "dict" THEN Raise("AttributeError")
             ELSE LET status == _map_game_status(Get(game, "gameStatusText", Str(<<>>)),
                                                 Null, Null, Null)
                  IN  IF ~status.ok THEN status
                      ELSE Return(SetItem(summary, "status", status.value))
        ELSE LET result_sets == IterItems(Get(boxscore_data, "resultSets", List(<<>>)))
                  game_summary == FindResultSet(result_sets.value, "GameSummary")
             IN  IF ~result_sets.ok THEN result_sets
                 ELSE IF ~game_summary.ok THEN game_summary
                 ELSE IF Truthy(game_summary.value) /\ game_summary.value.t \in {"num", "bool"}
                      THEN Raise("TypeError")
                 ELSE Return(summary)

\* len(v) > n for a list; len() of a number, a bool or None raises.
LongerThan(v, n) ==
    CASE v.t = "list" -> Return(Len(v.items) > n)
      [] v.t = "str"  -> Return(Len(v.s) > n)
      [] v.t = "dict" -> Return(Len(v.kv) > n)
      [] OTHER -> Raise("TypeError")

\* The keys of an action that the event renames (line 535).
RenamedActionKeys ==
    {"actionNumber", "actionType", "period", "clock", "description", "scoreHome",
     "scoreAway", "teamId", "teamTricode", "playerName", "playerNameI"}

\* **{k: v for k, v in action.items() if k not in [...]} spliced at the end of
\* the event literal.
RECURSIVE SpliceItems(_, _)
SpliceItems(event, kv) ==
    IF kv = <<>> THEN event
    ELSE SpliceItems(IF Head(kv)[1] \in RenamedActionKeys THEN event
                     ELSE SetItem(event, Head(kv)[1], Head(kv)[2]),
                     Tail(kv))

\* Lines 521-536: the event of the action at 0-based index idx.
LiveEvent(action, idx) ==
    SpliceItems(
        Dict(<< <<"sequence", Num(idx + 1)>>,
                <<"event_num", Get(action, "actionNumber", Num(idx + 1))>>,
                <<"action_type", Get(action, "actionType", Str(<<>>))>>,
                <<"period", Get(action, "period", Num(0))>>,
                <<"clock", Get(action, "clock", Str(<<>>))>>,
                <<"description", Get(action, "description", Str(<<>>))>>,
                <<"score_home", Get(action, "scoreHome", Str(<<>>))>>,
                <<"score_away", Get(action, "scoreAway", Str(<<>>))>>,
                <<"team_id", Get(action, "teamId", Null)>>,
                <<"team_tricode", Get(action, "teamTricode", Str(<<>>))>>,
                <<"player_name", Get(action, "playerName", Str(<<>>))>>,
                <<"player_name_i", Get(action, "playerNameI", Str(<<>>))>> >>),
        action.kv)

\* Lines 516-537: the events of the actions from 0-based index idx on;
\* actions that are not dicts are skipped.
RECURSIVE LiveEvents(_, _)
LiveEvents(actions, idx) ==
    IF idx >= Len(actions) THEN <<>>
    ELSE IF actions[idx + 1].t # "dict" THEN LiveEvents(actions, idx + 1)
    ELSE <<LiveEvent(actions[idx + 1], idx)>> \o LiveEvents(actions, idx + 1)

\* Lines 555-561: the events of the rows of the stats format.
RECURSIVE RowEvents(_, _)
RowEvents(rows, idx) ==
    IF idx >= Len(rows) THEN Return(<<>>)
    ELSE LET row == rows[idx + 1]
             longer == LongerThan(row, 1)
             rest == RowEvents(rows, idx + 1)
         IN  IF ~longer.ok THEN longer
             ELSE IF longer.value /\ row.t = "dict" THEN Raise("KeyError")
             ELSE IF ~rest.ok THEN rest
             ELSE Return(<<Dict(<< <<"sequence", Num(idx + 1)>>,
                                   <<"event_num", IF longer.value THEN Index(row, 1)
                                                  ELSE Num(idx + 1)>> >>)>>
                         \o rest.value)

\* Lines 490-508: where the transformer looks for the actions; None when it
\* finds none.
PbpActions(pbp_data) ==
    LET game == Get(pbp_data, "game", Null)
        game_data == IF game.t = "list" /\ Len(game.items) > 0 THEN game.items[1] ELSE game
    IN  IF Truthy(game) /\ game.t = "dict"
        THEN IF Truthy(Get(game, "actions", Null)) THEN Item(game, "actions") ELSE Null
        ELSE IF Truthy(Get(pbp_data, "actions", Null)) THEN Item(pbp_data, "actions")
        ELSE IF HasKey(pbp_data, "game")
        THEN IF game_data.t = "dict" /\ Truthy(Get(game_data, "actions", Null))
             THEN Item(game_data, "actions") ELSE Null
        ELSE Null

\* The events left out of the payload.
PbpPayload_no_events(game_id, events) ==
    Dict(<< <<"id", game_id>>, <<"sequence", Num(Len(events))>> >>)

PbpPayload(game_id, events) ==
    Dict(<< <<"id", game_id>>, <<"sequence", Num(Len(events))>>,
            <<"events", List(events)>> >>)

\* transform_playbyplay_to_pbp(pbp_data, game_id); pbp_data is a dict.
transform_playbyplay_to_pbp(pbp_data, game_id) ==
    LET actions == PbpActions(pbp_data)
    IN  IF Truthy(actions) /\ actions.t \in {"num", "bool"}
        THEN Raise("TypeError")  \* len(actions) in the debug message
        ELSE IF Truthy(actions)
        THEN Return(PbpPayload(game_id,
                        IF actions.t = "list" THEN LiveEvents(actions.items, 0) ELSE <<>>))
        ELSE IF Truthy(Get(pbp_data, "resultSets", Null))
        THEN LET result_sets == IterItems(Item(pbp_data, "resultSets"))
                 pbp_rows == FindResultSet(result_sets.value, "PlayByPlay")
                 rows == IterItems(pbp_rows.value)
                 events == RowEvents(rows.value, 0)
             IN  IF ~result_sets.ok THEN result_sets
                 ELSE IF ~pbp_rows.ok THEN pbp_rows
                 ELSE IF ~Truthy(pbp_rows.value) THEN Return(PbpPayload(game_id, <<>>))
                 ELSE IF ~rows.ok THEN rows
                 ELSE IF ~events.ok THEN events
                 ELSE Return(PbpPayload(game_id, events.value))
        ELSE Return(PbpPayload(game_id, <<>>))

\* datetime.fromisoformat(text).isoformat() for the texts of the model;
\* every other text is not in ISO format.
IsoRoundTrip(text) ==
    CASE text = "2025-01-15T19:30:00" -> Return("2025-01-15T19:30:00")
      [] text = "2025-01-16T00:30:00+00:00" -> Return("2025-01-16T00:30:00+00:00")
      [] text = "2025-01-08T00:00:00" -> Return("2025-01-08T00:00:00")
      [] text = "2025-01-08" -> Return("2025-01-08T00:00:00")
      [] OTHER -> Raise("ValueError")

\* str.replace('Z', '+00:00') on the pieces of a text.
ReplaceZ(text) == [i \in 1..Len(text) |-> IF text[i] = "Z" THEN "+00:00" ELSE text[i]]

\* _parse_nba_date(date_str): the ISO text, or None when anything fails.  A
\* suffix ET or Z is a piece of its own.
_parse_nba_date(date_str) ==
    IF date_str.t # "str" THEN Null
    ELSE LET text == date_str.s
             parsed ==
                IF text # <<>> /\ text[Len(text)] = "ET"
                THEN IsoRoundTrip(Cat(SubSeq(text, 1, Len(text) - 1)))
                ELSE IF text # <<>> /\ text[Len(text)] = "Z"
                THEN IsoRoundTrip(Cat(ReplaceZ(text)))
                ELSE IsoRoundTrip(Cat(text))
         IN  IF parsed.ok THEN Str(<<parsed.value>>) ELSE Null

\* Lines 123-131 and 196-203: game["scheduled"] is set when the time parses.
WithScheduled(game, game_time) ==
    LET Parsed(scheduled_time) ==
            IF Truthy(scheduled_time) THEN SetItem(game, "scheduled", scheduled_time) ELSE game
    IN  IF Truthy(game_time) THEN Parsed(_parse_nba_date(game_time)) ELSE game

\* The provider id of a live game is given as its id, underived.
LiveScheduleGame_provider_id_as_id(nba_game) ==
    LET Extras(game) ==
            LET WithClock(g) ==
                    IF Truthy(Get(nba_game, "gameClock", Null))
                    THEN SetItem(g, "clock", Item(nba_game, "gameClock")) ELSE g
                WithPeriod(g) ==
                    WithClock(IF Truthy(Get(nba_game, "period", Null))
                              THEN SetItem(g, "period", Item(nba_game, "period")) ELSE g)
            IN  WithPeriod(WithScheduled(game,
                    IF Truthy(Get(nba_game, "gameEt", Null)) THEN Item(nba_game, "gameEt")
                    ELSE Get(nba_game, "gameTimeUTC", Null)))
        Teams(nba_game_id, game_uuid, status, home_team_data, away_team_data) ==
            IF home_team_data.t # "dict" \/ away_team_data.t # "dict"
            THEN Raise("AttributeError")
            ELSE Return(Extras(Dict(<< <<"id", nba_game_id>>,
                                       <<"nba_game_id", nba_game_id>>,
                                       <<"status", status.value>>,
                                       <<"home", LiveTeam(home_team_data)>>,
                                       <<"away", LiveTeam(away_team_data)>> >>)))
        Mapped(nba_game_id, game_uuid, status) ==
            IF ~status.ok THEN status
            ELSE Teams(nba_game_id, game_uuid, status, Get(nba_game, "homeTeam", Dict(<<>>)),
                       Get(nba_game, "awayTeam", Dict(<<>>)))
        Converted(nba_game_id, game_uuid) ==
            IF ~game_uuid.ok THEN game_uuid
            ELSE Mapped(nba_game_id, game_uuid,
                        _map_game_status(Get(nba_game, "gameStatusText", Str(<<"Scheduled">>)),
                                         Get(nba_game, "gameStatus", Null),
                                         Get(nba_game, "period", Null),
                                         Get(nba_game, "gameClock", Null)))
        Identified(nba_game_id) ==
            IF ~Truthy(nba_game_id) THEN Return(Null)
            ELSE Converted(nba_game_id, nba_game_id_to_uuid(nba_game_id.s))
    IN  IF nba_game.t # "dict" THEN Raise("AttributeError")
        ELSE Identified(PyStr(Get(nba_game, "gameId", Str(<<>>))))

\* Lines 66-139: the schedule entry of one game of the live scoreboard, or
\* None when the game has no id.
LiveScheduleGame(nba_game) ==
    LET Extras(game) ==
            LET WithClock(g) ==
                    IF Truthy(Get(nba_game, "gameClock", Null))
                    THEN SetItem(g, "clock", Item(nba_game, "gameClock")) ELSE g
                WithPeriod(g) ==
                    WithClock(IF Truthy(Get(nba_game, "period", Null))
                              THEN SetItem(g, "period", Item(nba_game, "period")) ELSE g)
            IN  WithPeriod(WithScheduled(game,
                    IF Truthy(Get(nba_game, "gameEt", Null)) THEN Item(nba_game, "gameEt")
                    ELSE Get(nba_game, "gameTimeUTC", Null)))
        Teams(nba_game_id, game_uuid, status, home_team_data, away_team_data) ==
            IF home_team_data.t # "dict" \/ away_team_data.t # "dict"
            THEN Raise("AttributeError")
            ELSE Return(Extras(Dict(<< <<"id", Str(game_uuid.value)>>,
                                       <<"nba_game_id", nba_game_id>>,
                                       <<"status", status.value>>,
                                       <<"home", LiveTeam(home_team_data)>>,
                                       <<"away", LiveTeam(away_team_data)>> >>)))
        Mapped(nba_game_id, game_uuid, status) ==
            IF ~status.ok THEN status
            ELSE Teams(nba_game_id, game_uuid, status, Get(nba_game, "homeTeam", Dict(<<>>)),
                       Get(nba_game, "awayTeam", Dict(<<>>)))
        Converted(nba_game_id, game_uuid) ==
            IF ~game_uuid.ok THEN game_uuid
            ELSE Mapped(nba_game_id, game_uuid,
                        _map_game_status(Get(nba_game, "gameStatusText", Str(<<"Scheduled">>)),
                                         Get(nba_game, "gameStatus", Null),
                                         Get(nba_game, "period", Null),
                                         Get(nba_game, "gameClock", Null)))
        Identified(nba_game_id) ==
            IF ~Truthy(nba_game_id) THEN Return(Null)
            ELSE Converted(nba_game_id, nba_game_id_to_uuid(nba_game_id.s))
    IN  IF nba_game.t # "dict" THEN Raise("AttributeError")
        ELSE Identified(PyStr(Get(nba_game, "gameId", Str(<<>>))))

\* row[i] if len(row) > i else default, for a row that is a list.
Column(row, i, default) == IF Len(row.items) > i THEN row.items[i + 1] ELSE default

\* str(row[i]) if len(row) > i else None
StrColumn(row, i) == IF Len(row.items) > i THEN PyStr(row.items[i + 1]) ELSE Null

\* Lines 237-245: the rows of LineScore in order; a later row of the same
\* team replaces an earlier one.
RECURSIVE ScanLineScore(_, _, _, _)
ScanLineScore(rows, home_team_id, visitor_team_id, teams) ==
    IF rows = <<>> THEN Return(teams)
    ELSE IF Head(rows).t # "list" THEN Raise("TypeError")
    ELSE LET row == Head(rows)
             team_id == StrColumn(row, 1)
             team == Dict(<< <<"name", Column(row, 3, Str(<<>>))>>,
                             <<"alias", Column(row, 2, Str(<<>>))>> >>)
         IN  ScanLineScore(Tail(rows), home_team_id, visitor_team_id,
                IF Eq(team_id, home_team_id) THEN [teams EXCEPT !.home = team]
                ELSE IF Eq(team_id, visitor_team_id) THEN [teams EXCEPT !.away = team]
                ELSE teams)

\* _extract_teams_from_scoreboard(scoreboard_data, home_team_id, visitor_team_id)
_extract_teams_from_scoreboard(scoreboard_data, home_team_id, visitor_team_id) ==
    LET none == Dict(<< <<"name", Str(<<>>)>>, <<"alias", Str(<<>>)>> >>)
        Rows(rows) ==
            IF ~rows.ok THEN rows
            ELSE ScanLineScore(rows.value, home_team_id, visitor_team_id,
                               [home |-> none, away |-> none])
        Found(line_score) ==
            IF ~line_score.ok THEN line_score
            ELSE IF ~Truthy(line_score.value) THEN Return([home |-> none, away |-> none])
            ELSE Rows(IterItems(line_score.value))
        Sets(result_sets) ==
            IF ~result_sets.ok THEN result_sets
            ELSE Found(FindResultSet(result_sets.value, "LineScore"))
    IN  Sets(IterItems(Get(scoreboard_data, "resultSets", List(<<>>))))

\* Lines 158-205: the schedule entry of one row of GameHeader, or None when
\* the row has no game id.
StatsScheduleGame(scoreboard_data, game_row) ==
    LET Side(team_id, team) ==
            Dict(<< <<"id", IF Truthy(team_id) THEN team_id ELSE Null>>,
                    <<"name", Get(team, "name", Str(<<>>))>>,
                    <<"alias", Get(team, "alias", Str(<<>>))>> >>)
        Teams(nba_game_id, game_uuid, status, home_team_id, visitor_team_id, teams) ==
            IF ~teams.ok THEN teams
            ELSE Return(WithScheduled(
                        Dict(<< <<"id", Str(game_uuid.value)>>,
                                <<"nba_game_id", nba_game_id>>,
                                <<"status", status.value>>,
                                <<"home", Side(home_team_id, teams.value.home)>>,
                                <<"away", Side(visitor_team_id, teams.value.away)>> >>),
                        Column(game_row, 1, Null)))
        Mapped(nba_game_id, game_uuid, status, home_team_id, visitor_team_id) ==
            IF ~status.ok THEN status
            ELSE Teams(nba_game_id, game_uuid, status, home_team_id, visitor_team_id,
                       _extract_teams_from_scoreboard(scoreboard_data, home_team_id,
                                                      visitor_team_id))
        Converted(nba_game_id, game_uuid) ==
            IF ~game_uuid.ok THEN game_uuid
            ELSE Mapped(nba_game_id, game_uuid,
                        _map_game_status(Column(game_row, 4, Str(<<"Scheduled">>)),
                                         Null, Null, Null),
                        StrColumn(game_row, 6), StrColumn(game_row, 7))
        Identified(nba_game_id) ==
            IF ~Truthy(nba_game_id) THEN Return(Null)
            ELSE Converted(nba_game_id, nba_game_id_to_uuid(nba_game_id.s))
    IN  IF game_row.t # "list" THEN Raise("TypeError")
        ELSE Identified(StrColumn(game_row, 0))

\* The loops of lines 66-139 and 158-205: the entries of the games in order,
\* those without an id left out.  live tells which format the games have.
RECURSIVE ScheduleGames(_, _, _)
ScheduleGames(scoreboard_data, games, live) ==
    LET Rest(game, rest) ==
            IF ~rest.ok THEN rest
            ELSE Return((IF game.value = Null THEN <<>> ELSE <<game.value>>) \o rest.value)
        First(game) ==
            IF ~game.ok THEN game
            ELSE Rest(game, ScheduleGames(scoreboard_data, Tail(games), live))
    IN  IF games = <<>> THEN Return(<<>>)
        ELSE First(IF live THEN LiveScheduleGame(Head(games))
                   ELSE StatsScheduleGame(scoreboard_data, Head(games)))

SchedulePayload(game_date, games) ==
    Dict(<< <<"date", game_date>>, <<"games", List(games)>> >>)

\* transform_scoreboard_to_schedule(scoreboard_data, game_date);
\* scoreboard_data is a dict.
transform_scoreboard_to_schedule(scoreboard_data, game_date) ==
    LET Games(date, games) ==
            IF ~games.ok THEN games ELSE Return(SchedulePayload(date, games.value))
        Items(date, items, live) ==
            IF ~items.ok THEN items
            ELSE Games(date, ScheduleGames(scoreboard_data, items.value, live))
        Live(scoreboard_info) ==
            Items(IF Truthy(Get(scoreboard_info, "gameDate", Null))
                  THEN Item(scoreboard_info, "gameDate") ELSE game_date,
                  IterItems(Item(scoreboard_info, "games")), TRUE)
        GameHeader(game_header) ==
            IF ~game_header.ok THEN game_header
            ELSE IF ~Truthy(game_header.value) THEN Return(SchedulePayload(game_date, <<>>))
            ELSE Items(game_date, IterItems(game_header.value), FALSE)
        Sets(result_sets) ==
            IF ~result_sets.ok THEN result_sets
            ELSE GameHeader(FindResultSet(result_sets.value, "GameHeader"))
    IN  IF HasKey(scoreboard_data, "scoreboard")
           /\ Item(scoreboard_data, "scoreboard").t \notin {"dict", "list", "str"}
        THEN Raise("TypeError")
        ELSE IF HasKey(scoreboard_data, "scoreboard")
                /\ HasKey(Item(scoreboard_data, "scoreboard"), "games")
        THEN Live(Item(scoreboard_data, "scoreboard"))
        ELSE IF HasKey(scoreboard_data, "resultSets")
        THEN Sets(IterItems(Item(scoreboard_data, "resultSets")))
        ELSE Return(SchedulePayload(game_date, <<>>))

(***************************************************************************)
(* Upstream data in the shapes nba_api gives: live scoreboard games, live  *)
(* boxscores and play-by-play, and the result sets of the stats endpoints. *)
(***************************************************************************)
LiveGameInProgress ==
    Dict(<<<<"gameId", Str(NbaA)>>, <<"gameStatus", Num(2)>>, <<"gameStatusText", Str(<<"Q",
        "2 5:00">>)>>, <<"period", Num(2)>>, <<"gameClock", Str(<<"PT05M00.00S">>)>>,
        <<"gameTimeUTC", Str(<<"2025-01-16T00:30:00", "Z">>)>>, <<"homeTeam",
        Dict(<<<<"teamId", Num(1610612738)>>, <<"teamName", Str(<<"Celtics">>)>>,
        <<"teamCity", Str(<<"Boston">>)>>, <<"teamTricode", Str(<<"BOS">>)>>, <<"score",
        Num(55)>>, <<"wins", Num(20)>>, <<"losses", Num(5)>>, <<"timeoutsRemaining",
        Num(3)>>, <<"inBonus", Str(<<"1">>)>>, <<"periods", List(<<Dict(<<<<"period",
        Num(1)>>, <<"score", Num(30)>>>>)>>)>>>>)>>, <<"awayTeam", Dict(<<<<"teamId",
        Num(1610612747)>>, <<"teamName", Str(<<"Lakers">>)>>, <<"teamCity",
        Str(<<"Los Angeles">>)>>, <<"teamTricode", Str(<<"LAL">>)>>, <<"score",
        Num(50)>>>>)>>, <<"gameLeaders", Dict(<<<<"homeLeaders", Dict(<<<<"name",
        Str(<<"Jayson Tatum">>)>>, <<"points", Num(20)>>>>)>>>>)>>>>)

LiveGameFinal ==
    Dict(<<<<"gameId", Str(NbaA)>>, <<"gameStatus", Num(3)>>, <<"gameStatusText",
        Str(<<"Final">>)>>, <<"period", Num(4)>>, <<"gameClock", Str(<<>>)>>,
        <<"gameTimeUTC", Str(<<"2025-01-16T00:30:00", "Z">>)>>, <<"homeTeam",
        Dict(<<<<"teamId", Num(1610612738)>>, <<"teamName", Str(<<"Celtics">>)>>,
        <<"teamCity", Str(<<"Boston">>)>>, <<"teamTricode", Str(<<"BOS">>)>>, <<"score",
        Num(110)>>, <<"wins", Num(21)>>, <<"losses", Num(5)>>>>)>>, <<"awayTeam",
        Dict(<<<<"teamId", Num(1610612747)>>, <<"teamName", Str(<<"Lakers">>)>>,
        <<"teamCity", Str(<<"Los Angeles">>)>>, <<"teamTricode", Str(<<"LAL">>)>>,
        <<"score", Num(102)>>>>)>>>>)

LiveGameOther ==
    Dict(<<<<"gameId", Str(NbaB)>>, <<"gameStatus", Num(1)>>, <<"gameStatusText",
        Str(<<"7:30 ", "pm", " ", "ET">>)>>, <<"period", Num(0)>>, <<"gameClock",
        Str(<<>>)>>, <<"gameEt", Str(<<"2025-01-15T19:30:00", "ET">>)>>, <<"homeTeam",
        Dict(<<<<"teamId", Num(1610612747)>>, <<"teamName", Str(<<"Lakers">>)>>,
        <<"teamCity", Str(<<"Los Angeles">>)>>, <<"teamTricode", Str(<<"LAL">>)>>,
        <<"score", Num(50)>>>>)>>, <<"awayTeam", Dict(<<<<"teamId", Num(1610612738)>>,
        <<"teamName", Str(<<"Celtics">>)>>, <<"teamCity", Str(<<"Boston">>)>>,
        <<"teamTricode", Str(<<"BOS">>)>>, <<"score", Num(55)>>, <<"wins", Num(20)>>,
        <<"losses", Num(5)>>, <<"timeoutsRemaining", Num(3)>>, <<"inBonus", Str(<<"1">>)>>,
        <<"periods", List(<<Dict(<<<<"period", Num(1)>>, <<"score",
        Num(30)>>>>)>>)>>>>)>>>>)

ScoreboardInProgress ==
    Dict(<<<<"meta", Dict(<<<<"code", Num(200)>>>>)>>, <<"scoreboard", Dict(<<<<"gameDate",
        Str(<<"2024-02-29">>)>>, <<"games", List(<<LiveGameOther,
        LiveGameInProgress>>)>>>>)>>>>)

ScoreboardFinal ==
    Dict(<<<<"scoreboard", Dict(<<<<"gameDate", Str(<<"2024-02-29">>)>>, <<"games",
        List(<<LiveGameFinal, Dict(<<<<"gameStatusText", Str(<<"TBD">>)>>>>)>>)>>>>)>>>>)

LiveBoxscore ==
    Dict(<<<<"meta", Dict(<<<<"code", Num(200)>>>>)>>, <<"game", Dict(<<<<"gameId",
        Str(NbaA)>>, <<"gameStatus", Num(3)>>, <<"gameStatusText", Str(<<"Final">>)>>,
        <<"homeTeam", Dict(<<<<"teamId", Num(1610612738)>>, <<"teamName",
        Str(<<"Celtics">>)>>, <<"teamCity", Str(<<"Boston">>)>>, <<"teamTricode",
        Str(<<"BOS">>)>>, <<"score", Num(110)>>, <<"wins", Num(21)>>, <<"losses",
        Num(5)>>>>)>>, <<"awayTeam", Dict(<<<<"teamId", Num(1610612747)>>, <<"teamName",
        Str(<<"Lakers">>)>>, <<"teamCity", Str(<<"Los Angeles">>)>>, <<"teamTricode",
        Str(<<"LAL">>)>>, <<"score", Num(102)>>>>)>>>>)>>>>)

SummaryV2 ==
    Dict(<<<<"resource", Str(<<"boxscoresummaryv2">>)>>, <<"resultSets",
        List(<<Dict(<<<<"name", Str(<<"GameSummary">>)>>, <<"headers",
        List(<<Str(<<"GAME_DATE_EST">>), Str(<<"GAME_ID">>)>>)>>, <<"rowSet",
        List(<<List(<<Str(<<"2025-01-08T00:00:00">>), Str(NbaA)>>)>>)>>>>), Dict(<<<<"name",
        Str(<<"LineScore">>)>>, <<"rowSet", List(<<>>)>>>>)>>)>>>>)

LivePbpOne ==
    Dict(<<<<"meta", Dict(<<<<"code", Num(200)>>>>)>>, <<"game", Dict(<<<<"gameId",
        Str(NbaA)>>, <<"actions", List(<<Dict(<<<<"actionNumber", Num(1)>>, <<"actionType",
        Str(<<"period">>)>>, <<"subType", Str(<<"start">>)>>, <<"period", Num(1)>>,
        <<"clock", Str(<<"PT12M00.00S">>)>>, <<"description", Str(<<"Period Start">>)>>,
        <<"scoreHome", Str(<<"0">>)>>, <<"scoreAway", Str(<<"0">>)>>>>)>>)>>>>)>>>>)

LivePbpTwo ==
    Dict(<<<<"game", Dict(<<<<"gameId", Str(NbaA)>>, <<"actions",
        List(<<Dict(<<<<"actionNumber", Num(1)>>, <<"actionType", Str(<<"period">>)>>,
        <<"subType", Str(<<"start">>)>>, <<"period", Num(1)>>, <<"clock",
        Str(<<"PT12M00.00S">>)>>, <<"description", Str(<<"Period Start">>)>>, <<"scoreHome",
        Str(<<"0">>)>>, <<"scoreAway", Str(<<"0">>)>>>>), Str(NbaA),
        Dict(<<<<"actionNumber", Num(4)>>, <<"actionType", Str(<<"2pt">>)>>, <<"period",
        Num(1)>>, <<"clock", Str(<<"PT11M40.00S">>)>>, <<"description",
        Str(<<"J. Tatum driving layup">>)>>, <<"scoreHome", Str(<<"2">>)>>, <<"scoreAway",
        Str(<<"0">>)>>, <<"teamId", Num(1610612738)>>, <<"teamTricode", Str(<<"BOS">>)>>,
        <<"playerName", Str(<<"Tatum">>)>>, <<"playerNameI", Str(<<"J. Tatum">>)>>,
        <<"shotResult", Str(<<"Made">>)>>, <<"sequence", Num(7)>>, <<"personId",
        Num(1628369)>>>>)>>)>>>>)>>>>)

LivePbpNone ==
    Dict(<<<<"game", Dict(<<<<"gameId", Str(NbaA)>>, <<"actions", List(<<>>)>>>>)>>>>)

StatsPbpRows ==
    Dict(<<<<"resultSets", List(<<Dict(<<<<"name", Str(<<"AvailableVideo">>)>>, <<"rowSet",
        List(<<List(<<Num(1)>>)>>)>>>>), Dict(<<<<"name", Str(<<"PlayByPlay">>)>>,
        <<"rowSet", List(<<List(<<Str(NbaA), Num(2), Num(12)>>), List(<<Str(NbaA)>>),
        List(<<Str(NbaA), Num(7), Num(1)>>)>>)>>>>)>>)>>>>)

ScoreboardV2 ==
    Dict(<<<<"resultSets", List(<<Dict(<<<<"name", Str(<<"GameHeader">>)>>, <<"rowSet",
        List(<<List(<<Str(NbaA), Str(<<"2025-01-08T00:00:00">>), Num(1), Num(3),
        Str(<<"Final">>), Str(<<"20250108/LALBOS">>), Num(1610612738), Num(1610612747)>>),
        List(<<>>)>>)>>>>), Dict(<<<<"name", Str(<<"LineScore">>)>>, <<"rowSet",
        List(<<List(<<Str(NbaA), Num(1610612747), Str(<<"LAL">>), Str(<<"Lakers">>)>>),
        List(<<Str(NbaA), Num(1610612738), Str(<<"BOS">>),
        Str(<<"Celtics">>)>>)>>)>>>>)>>)>>>>)

ScoreboardV2Empty ==
    Dict(<<<<"resultSets", List(<<Dict(<<<<"name", Str(<<"GameHeader">>)>>, <<"rowSet",
        List(<<>>)>>>>), Dict(<<<<"name", Str(<<"LineScore">>)>>, <<"rowSet",
        List(<<>>)>>>>)>>)>>>>)

(***************************************************************************)
(* The transformers applied to upstream data of every kind: games of the   *)
(* live scoreboard in every combination of status code, status text,       *)
(* period and clock, the documents above, and documents in none of the     *)
(* formats.                                                                *)
(***************************************************************************)
GameStatusTexts ==
    {Null, Num(5), Str(<<>>), Str(<<"Final">>), Str(<<"Q4 0:00">>), Str(<<"Halftime">>),
     Str(<<"7:00 ", "pm", " ", "ET">>), Str(<<"Postponed">>), Str(<<"Delayed">>)}

StatusGame(game_status, text, period, clock) ==
    Dict(<< <<"gameId", Str(NbaA)>>, <<"gameStatus", game_status>>,
            <<"gameStatusText", text>>, <<"period", period>>, <<"gameClock", clock>>,
            <<"homeTeam", Dict(<< <<"teamId", Num(1610612738)>>,
                                  <<"teamTricode", Str(<<"BOS">>)>> >>)>>,
            <<"awayTeam", Dict(<< <<"teamId", Num(1610612747)>>,
                                  <<"teamTricode", Str(<<"LAL">>)>> >>)>> >>)

LiveGames ==
    {StatusGame(game_status, text, period, clock) :
        game_status \in StatusCodes, text \in GameStatusTexts,
        period \in Periods, clock \in Clocks}
    \cup {Dict(<< <<"gameId", Str(NbaB)>> >>), Dict(<<>>), Num(7)}

\* A stats scoreboard of one game whose status text is text.
StatsScoreboard(text) ==
    Dict(<< <<"resultSets",
              List(<< Dict(<< <<"name", Str(<<"GameHeader">>)>>,
                              <<"rowSet", List(<< List(<< Str(NbaA),
                                    Str(<<"2025-01-08T00:00:00">>), Num(1), Num(1), text,
                                    Str(<<"20250108/LALBOS">>), Num(1610612738),
                                    Num(1610612747) >>) >>)>> >>) >>)>> >>)

\* Documents in none of the formats.
OddDocuments ==
    {Dict(<<>>),
     Dict(<< <<"meta", Dict(<< <<"code", Num(200)>> >>)>> >>),
     Dict(<< <<"scoreboard", Null>> >>),
     Dict(<< <<"scoreboard", Num(5)>> >>),
     Dict(<< <<"scoreboard", Dict(<<>>)>> >>),
     Dict(<< <<"scoreboard", Dict(<< <<"games", Null>> >>)>> >>),
     Dict(<< <<"resultSets", Null>> >>),
     Dict(<< <<"resultSets", Num(5)>> >>),
     Dict(<< <<"resultSets", List(<<Num(5)>>)>> >>),
     Dict(<< <<"resultSets", List(<<>>)>> >>),
     Dict(<< <<"game", Null>> >>),
     Dict(<< <<"game", Num(5)>> >>),
     Dict(<< <<"game", List(<<>>)>> >>),
     Dict(<< <<"game", List(<<Num(5)>>)>> >>),
     Dict(<< <<"actions", Null>> >>),
     Dict(<< <<"actions", Num(5)>> >>),
     Dict(<< <<"_source", Str(<<"live_scoreboard">>)>> >>),
     Dict(<< <<"_source", Str(<<"live_scoreboard">>)>>, <<"game", Num(5)>> >>)}

Scoreboards ==
    {Dict(<< <<"scoreboard", Dict(<< <<"gameDate", Str(<<"2024-02-29">>)>>,
                                     <<"games", List(<<game>>)>> >>)>> >>) :
        game \in LiveGames}
    \cup {StatsScoreboard(text) : text \in GameStatusTexts}
    \cup {ScoreboardInProgress, ScoreboardFinal, ScoreboardV2, ScoreboardV2Empty}
    \cup OddDocuments

Boxscores ==
    {Dict(<< <<"_source", Str(<<"live_scoreboard">>)>>, <<"game", game>> >>) :
        game \in LiveGames}
    \cup {Dict(<< <<"game", game>> >>) : game \in LiveGames}
    \cup {LiveBoxscore, SummaryV2}
    \cup OddDocuments

PlayByPlays == {LivePbpOne, LivePbpTwo, LivePbpNone, StatsPbpRows} \cup OddDocuments

TransformScoreboard ==
    \E scoreboard_data \in Scoreboards :
        /\ call = NoCall
        /\ call' = [fn |-> "transform_scoreboard_to_schedule", arg |-> scoreboard_data,
                    key |-> Str(<<"2024-02-28">>),
                    result |-> transform_scoreboard_to_schedule(scoreboard_data,
                                                                Str(<<"2024-02-28">>))]
        /\ UNCHANGED <<kept, storeVars, upstreamVars>>

TransformBoxscore ==
    \E boxscore_data \in Boxscores :
        /\ call = NoCall
        /\ call' = [fn |-> "transform_boxscore_to_summary", arg |-> boxscore_data,
                    key |-> Str(UuidA),
                    result |-> transform_boxscore_to_summary(boxscore_data, Str(UuidA))]
        /\ UNCHANGED <<kept, storeVars, upstreamVars>>

TransformPlayByPlay ==
    \E pbp_data \in PlayByPlays :
        /\ call = NoCall
        /\ call' = [fn |-> "transform_playbyplay_to_pbp", arg |-> pbp_data,
                    key |-> Str(UuidA),
                    result |-> transform_playbyplay_to_pbp(pbp_data, Str(UuidA))]
        /\ UNCHANGED <<kept, storeVars, upstreamVars>>

\* The caller has taken the payload.
PayloadTaken ==
    /\ call # NoCall
    /\ call' = NoCall
    /\ UNCHANGED <<kept, storeVars, upstreamVars>>

NextTransform == TransformScoreboard \/ TransformBoxscore \/ TransformPlayByPlay \/ PayloadTaken

SpecTransform == InitMapper /\ [][NextTransform]_vars

(***************************************************************************)
(* app/services/nba_api_client.py.  The nba_api library is the upstream   *)
(* collaborator: upstream tells which data its endpoints serve now, for    *)
(* the game the upstream knows (UpstreamGame); calls for another game id   *)
(* raise.                                                                  *)
(***************************************************************************)
UpstreamGame == Str(NbaA)

\* An upstream call that fails (a timeout, an HTTP error, a body that is
\* not JSON).
Down == Raise("Timeout")

NoStats == [name \in {"BoxScoreTraditionalV2", "BoxScoreV2", "BoxScore"} |->
                [exists |-> FALSE, out |-> Down]]

AllStatsPbp(outcome) ==
    [name \in {"PlayByPlayV2 (all periods)", "PlayByPlayV2 (periods 1-4)", "PlayByPlay"} |-> outcome]

\* What the endpoints of nba_api give while the game is played, after it has
\* ended, when only the stats endpoints answer and when nothing answers.
Upstreams == {"in progress", "final", "stats only", "down"}

NbaApi ==
    [state \in Upstreams |->
     CASE state = "in progress" ->
     [live_scoreboard |-> Return(ScoreboardInProgress), live_boxscore |-> Return(LiveBoxscore),
      summary_v2 |-> Return(SummaryV2), stats |-> NoStats, live_pbp |-> Return(LivePbpOne),
      stats_pbp |-> AllStatsPbp(Return(StatsPbpRows)), scoreboard_v2 |-> Return(ScoreboardV2)]
     [] state = "final" ->
     [live_scoreboard |-> Return(ScoreboardFinal), live_boxscore |-> Return(LiveBoxscore),
      summary_v2 |-> Return(SummaryV2), stats |-> NoStats, live_pbp |-> Return(LivePbpTwo),
      stats_pbp |-> AllStatsPbp(Return(StatsPbpRows)), scoreboard_v2 |-> Return(ScoreboardV2)]
     [] state = "stats only" ->
     [live_scoreboard |-> Down, live_boxscore |-> Down,
      summary_v2 |-> Return(SummaryV2), stats |-> NoStats, live_pbp |-> Return(LivePbpNone),
      stats_pbp |-> [AllStatsPbp(Return(StatsPbpRows)) EXCEPT !["PlayByPlayV2 (all periods)"] = Down],
      scoreboard_v2 |-> Return(ScoreboardV2Empty)]
     [] state = "down" ->
     [live_scoreboard |-> Down, live_boxscore |-> Down, summary_v2 |-> Down,
      stats |-> [NoStats EXCEPT !["BoxScoreTraditionalV2"] = [exists |-> TRUE, out |-> Down]],
      live_pbp |-> Down, stats_pbp |-> AllStatsPbp(Down), scoreboard_v2 |-> Down]]

\* A document of a stats boxscore class, told from the others by resource.
StatsBoxscore(resource) ==
    Dict(<< <<"resource", Str(<<resource>>)>>,
            <<"resultSets", List(<< Dict(<< <<"name", Str(<<"GameSummary">>)>>,
                                            <<"rowSet", List(<<>>)>> >>) >>)>> >>)

\* A document of a stats play-by-play endpoint with the given rows.
StatsPbp(resource, rows) ==
    Dict(<< <<"resource", Str(<<resource>>)>>,
            <<"resultSets", List(<< Dict(<< <<"name", Str(<<"PlayByPlay">>)>>,
                                            <<"rowSet", List(rows)>> >>) >>)>> >>)

\* A live scoreboard document with the given games.
LiveScoreboard(games) ==
    Dict(<< <<"scoreboard", Dict(<< <<"gameDate", Str(<<"2024-02-29">>)>>,
                                    <<"games", List(games)>> >>)>> >>)

\* What each endpoint may do, by the word that names it in an upstream state.
LiveScoreboardOutcomes ==
    [game_first |-> Return(LiveScoreboard(<<LiveGameInProgress, LiveGameOther, LiveGameFinal>>)),
     game_later |-> Return(LiveScoreboard(<<LiveGameOther, Dict(<< <<"gameStatusText", Str(<<"TBD">>)>> >>),
                                            LiveGameFinal, LiveGameInProgress>>)),
     game_number |-> Return(LiveScoreboard(<<Dict(<< <<"gameId", Num(22300123)>> >>),
                                             Dict(<< <<"gameId", Null>> >>)>>)),
     other_game |-> Return(LiveScoreboard(<<LiveGameOther>>)),
     no_games |-> Return(LiveScoreboard(<<>>)),
     odd_game |-> Return(LiveScoreboard(<<Num(7), LiveGameFinal>>)),
     down |-> Down]

BoxscoreOutcomes(document) == [ok |-> Return(document), down |-> Down]

ClassOutcomes(document) ==
    [missing |-> [exists |-> FALSE, out |-> Down],
     ok |-> [exists |-> TRUE, out |-> Return(document)],
     down |-> [exists |-> TRUE, out |-> Down]]

\* A result of get_dict() is the document of the feed, which is never an
\* empty object; odd is a document that is not an object at all.
LivePbpOutcomes ==
    [plays |-> Return(LivePbpOne), no_plays |-> Return(LivePbpNone),
     odd |-> Return(List(<<Num(5)>>)), down |-> Down]

StatsPbpOutcomes(resource) ==
    [rows |-> Return(StatsPbp(resource, <<List(<<Str(NbaA), Num(2), Num(12)>>)>>)),
     no_rows |-> Return(StatsPbp(resource, <<>>)),
     down |-> Down]

\* What the two scoreboard endpoints may do: answer with games, answer with
\* a game whose id is blank, answer with a body that is not JSON, or not
\* answer.
ScheduleLiveOutcomes ==
    [ok |-> Return(ScoreboardInProgress),
     blank_id |-> Return(LiveScoreboard(<<Dict(<< <<"gameId", Str(<<" ">>)>> >>)>>)),
     not_json |-> Raise("JSONDecodeError"),
     down |-> Down]

ScheduleStatsOutcomes ==
    [ok |-> Return(ScoreboardV2),
     blank_id |-> Return(Dict(<< <<"resultSets",
                    List(<< Dict(<< <<"name", Str(<<"GameHeader">>)>>,
                                    <<"rowSet", List(<< List(<<Str(<<" ">>)>>) >>)>> >>) >>)>> >>)),
     not_json |-> Raise("JSONDecodeError"),
     down |-> Down]

ScoreboardState(sb, v2) == "scoreboard " \o sb \o "/" \o v2

ScoreboardUpstreams ==
    {ScoreboardState(sb, v2) : sb \in DOMAIN ScheduleLiveOutcomes,
                               v2 \in DOMAIN ScheduleStatsOutcomes}

\* The upstream states of the client taken alone: every combination of what
\* the sources of one method do, the sources of the other methods being
\* down.  A state is known by its name.
ClientTable ==
    {[name |-> "summary " \o sb \o "/" \o box \o "/" \o v2 \o "/" \o t \o "/" \o b2 \o "/" \o b,
      api |-> [live_scoreboard |-> LiveScoreboardOutcomes[sb],
               live_boxscore |-> BoxscoreOutcomes(LiveBoxscore)[box],
               summary_v2 |-> BoxscoreOutcomes(SummaryV2)[v2],
               stats |-> [BoxScoreTraditionalV2 |-> ClassOutcomes(StatsBoxscore("boxscoretraditionalv2"))[t],
                          BoxScoreV2 |-> ClassOutcomes(StatsBoxscore("boxscorev2"))[b2],
                          BoxScore |-> ClassOutcomes(StatsBoxscore("boxscore"))[b]],
               live_pbp |-> Down, stats_pbp |-> AllStatsPbp(Down), scoreboard_v2 |-> Down]] :
        sb \in DOMAIN LiveScoreboardOutcomes, box \in {"ok", "down"}, v2 \in {"ok", "down"},
        t \in {"missing", "ok", "down"}, b2 \in {"missing", "ok", "down"},
        b \in {"missing", "ok", "down"}}
    \cup
    {[name |-> "pbp " \o live \o "/" \o all \o "/" \o four \o "/" \o old,
      api |-> [live_scoreboard |-> Down, live_boxscore |-> Down, summary_v2 |-> Down,
               stats |-> NoStats,
               live_pbp |-> LivePbpOutcomes[live],
               stats_pbp |-> [name \in {"PlayByPlayV2 (all periods)",
                                        "PlayByPlayV2 (periods 1-4)", "PlayByPlay"} |->
                                CASE name = "PlayByPlayV2 (all periods)" ->
                                        StatsPbpOutcomes("playbyplayv2 0-0")[all]
                                  [] name = "PlayByPlayV2 (periods 1-4)" ->
                                        StatsPbpOutcomes("playbyplayv2 1-4")[four]
                                  [] name = "PlayByPlay" -> StatsPbpOutcomes("playbyplay")[old]],
               scoreboard_v2 |-> Down]] :
        live \in DOMAIN LivePbpOutcomes, all \in {"rows", "no_rows", "down"},
        four \in {"rows", "no_rows", "down"}, old \in {"rows", "no_rows", "down"}}
    \cup
    {[name |-> ScoreboardState(sb, v2),
      api |-> [live_scoreboard |-> ScheduleLiveOutcomes[sb], live_boxscore |-> Down,
               summary_v2 |-> Down, stats |-> NoStats, live_pbp |-> Down,
               stats_pbp |-> AllStatsPbp(Down),
               scoreboard_v2 |-> ScheduleStatsOutcomes[v2]]] :
        sb \in DOMAIN ScheduleLiveOutcomes, v2 \in DOMAIN ScheduleStatsOutcomes}

ClientUpstreams == {state.name : state \in ClientTable}

ClientApi == [name \in ClientUpstreams |-> (CHOOSE state \in ClientTable : state.name = name).api]

\* What a call of an endpoint of nba_api gives now.
nba_api == IF upstream \in Upstreams THEN NbaApi[upstream] ELSE ClientApi[upstream]

\* Outcome of an upstream endpoint called for game_id.
ForGame(outcome, game_id) ==
    IF game_id = UpstreamGame THEN outcome ELSE Raise("JSONDecodeError")

\* The first game of the list is wrapped, whatever its gameId.
FindLiveGame_first_listed(games, game_id, game_date) ==
    IF games = <<>> THEN Return(Null)
    ELSE IF Head(games).t # "dict" THEN Raise("AttributeError")
    ELSE Return(Dict(<< <<"_source", Str(<<"live_scoreboard">>)>>,
                        <<"game", Head(games)>> >>
                     \o (IF Truthy(game_date) THEN << <<"gameDate", game_date>> >>
                         ELSE <<>>)))

\* Lines 174-196: the first game of the list whose gameId is game_id, wrapped
\* as a live-scoreboard result; None when no game matches.
RECURSIVE FindLiveGame(_, _, _)
FindLiveGame(games, game_id, game_date) ==
    IF games = <<>> THEN Return(Null)
    ELSE IF Head(games).t # "dict" THEN Raise("AttributeError")
    ELSE IF Eq(PyStr(Get(Head(games), "gameId", Str(<<>>))), game_id)
         THEN Return(Dict(<< <<"_source", Str(<<"live_scoreboard">>)>>,
                             <<"game", Head(games)>> >>
                          \o (IF Truthy(game_date) THEN << <<"gameDate", game_date>> >>
                              ELSE <<>>)))
    ELSE FindLiveGame(Tail(games), game_id, game_date)

\* Lines 123-204: the live scoreboard attempt.  ScoreBoard().games.get_dict()
\* is the list scoreboard.games of the scoreboard document, and
\* score_board_date its scoreboard.gameDate.
LiveScoreboardAttempt(live_scoreboard, game_id) ==
    LET Found(games_data, found) ==
            IF games_data.t = "list" /\ Truthy(games_data) /\ found.ok THEN found
            ELSE Return(Null)
        Games(scoreboard_info, games_data) ==
            Found(games_data,
                  FindLiveGame(games_data.items, game_id, Get(scoreboard_info, "gameDate", Null)))
        Info(scoreboard_info) ==
            Games(scoreboard_info, Get(scoreboard_info, "games", List(<<>>)))
    IN  IF ~live_scoreboard.ok THEN Return(Null)
        ELSE Info(Get(live_scoreboard.value, "scoreboard", Dict(<<>>)))

\* The stats classes tried by name when they exist (line 230).
FallbackClasses == <<"BoxScoreTraditionalV2", "BoxScoreV2", "BoxScore">>

RECURSIVE TryFallbacks(_, _, _, _)
TryFallbacks(stats, names, game_id, tried) ==
    LET Tried(class, out) ==
            IF ~class.exists THEN TryFallbacks(stats, Tail(names), game_id, tried)
            ELSE IF out.ok THEN [out |-> out, tried |-> Append(tried, Head(names))]
            ELSE TryFallbacks(stats, Tail(names), game_id, Append(tried, Head(names)))
    IN  IF names = <<>>
        THEN [out |-> [ok |-> FALSE, exc |-> "ImportError",
                       msg |-> "Could not import boxscore endpoints from nba_api. Tried: live scoreboard, live boxscore, BoxScoreSummaryV2, BoxScoreTraditionalV2, BoxScoreV2, BoxScore."],
              tried |-> tried]
        ELSE Tried(stats[Head(names)], ForGame(stats[Head(names)].out, game_id))

\* The live boxscore is asked before the live scoreboard.
NBAApiClient_get_game_summary_boxscore_first(game_id) ==
    LET Attempts(api, live, box, v2) ==
            IF box.ok THEN [out |-> box, tried |-> <<"live boxscore">>]
            ELSE IF live.value # Null
                 THEN [out |-> live, tried |-> <<"live boxscore", "live scoreboard">>]
            ELSE IF v2.ok
                 THEN [out |-> v2,
                       tried |-> <<"live boxscore", "live scoreboard", "BoxScoreSummaryV2">>]
            ELSE TryFallbacks(api.stats, FallbackClasses, game_id,
                              <<"live boxscore", "live scoreboard", "BoxScoreSummaryV2">>)
        Calls(api) ==
            Attempts(api, LiveScoreboardAttempt(api.live_scoreboard, game_id),
                     ForGame(api.live_boxscore, game_id), ForGame(api.summary_v2, game_id))
    IN  Calls(nba_api)

\* NBAApiClient.get_game_summary(game_id): the outcome and the upstream
\* endpoints called, in order.
NBAApiClient_get_game_summary(game_id) ==
    LET Attempts(api, live, box, v2) ==
            IF live.value # Null THEN [out |-> live, tried |-> <<"live scoreboard">>]
            ELSE IF box.ok THEN [out |-> box, tried |-> <<"live scoreboard", "live boxscore">>]
            ELSE IF v2.ok
                 THEN [out |-> v2,
                       tried |-> <<"live scoreboard", "live boxscore", "BoxScoreSummaryV2">>]
            ELSE TryFallbacks(api.stats, FallbackClasses, game_id,
                              <<"live scoreboard", "live boxscore", "BoxScoreSummaryV2">>)
        Calls(api) ==
            Attempts(api, LiveScoreboardAttempt(api.live_scoreboard, game_id),
                     ForGame(api.live_boxscore, game_id), ForGame(api.summary_v2, game_id))
    IN  Calls(nba_api)

\* Lines 290-298: the actions the client looks at in a live result.
ClientActions(result) ==
    IF Truthy(Get(result, "game", Null)) /\ Item(result, "game").t = "dict"
    THEN Get(Item(result, "game"), "actions", Null)
    ELSE IF Truthy(Get(result, "actions", Null)) THEN Item(result, "actions")
    ELSE Null

\* Lines 318-321: some result set named PlayByPlay has rows; raises when a
\* result set met before is not a dict.
RECURSIVE AnyPlayRows(_)
AnyPlayRows(result_sets) ==
    IF result_sets = <<>> THEN Return(FALSE)
    ELSE IF Head(result_sets).t # "dict" THEN Raise("AttributeError")
    ELSE IF Eq(Get(Head(result_sets), "name", Null), Str(<<"PlayByPlay">>))
            /\ Truthy(Get(Head(result_sets), "rowSet", Null))
         THEN Return(TRUE)
    ELSE AnyPlayRows(Tail(result_sets))

\* The test made on the result of a stats play-by-play endpoint.
HasPlayRows(result) ==
    /\ Truthy(result) /\ result.t = "dict"
    /\ Truthy(Get(result, "resultSets", Null))
    /\ IterItems(Item(result, "resultSets")).ok
    /\ AnyPlayRows(IterItems(Item(result, "resultSets")).value) = Return(TRUE)

\* The stats play-by-play endpoints in the order tried (lines 310-354).
StatsPbpSources == <<"PlayByPlayV2 (all periods)", "PlayByPlayV2 (periods 1-4)", "PlayByPlay">>

\* Lines 310-366: the stats attempts from the n-th on; result is the last
\* result assigned so far (None when there is none).
RECURSIVE TryStatsPbp(_, _, _, _, _)
TryStatsPbp(stats_pbp, n, game_id, result, tried) ==
    LET Got(got, now) ==
            IF ~got.ok THEN TryStatsPbp(stats_pbp, n + 1, game_id, result, now)
            ELSE IF HasPlayRows(got.value) THEN [out |-> got, tried |-> now]
            ELSE TryStatsPbp(stats_pbp, n + 1, game_id, got.value, now)
    IN  IF n > Len(StatsPbpSources)
        THEN [out |-> IF Truthy(result) THEN Return(result)
                      ELSE [ok |-> FALSE, exc |-> "ImportError",
                            msg |-> "Could not import play-by-play endpoints from nba_api. Tried: live PlayByPlay, PlayByPlayV2 (all periods), PlayByPlayV2 (periods 1-4), PlayByPlay."],
              tried |-> tried]
        ELSE Got(ForGame(stats_pbp[StatsPbpSources[n]], game_id),
                 Append(tried, StatsPbpSources[n]))

\* A live result without plays is forgotten when the stats endpoints are tried.
NBAApiClient_get_play_by_play_live_result_dropped(game_id) ==
    LET Live(api, live, actions) ==
            IF live.ok /\ Truthy(live.value) /\ live.value.t = "dict"
               /\ Truthy(actions) /\ actions.t = "list"
            THEN [out |-> live, tried |-> <<"live PlayByPlay">>]
            ELSE TryStatsPbp(api.stats_pbp, 1, game_id, Null, <<"live PlayByPlay">>)
        Called(api, live) == Live(api, live, ClientActions(live.value))
        Calls(api) == Called(api, ForGame(api.live_pbp, game_id))
    IN  Calls(nba_api)

\* NBAApiClient.get_play_by_play(game_id): the outcome and the upstream
\* endpoints called, in order.
NBAApiClient_get_play_by_play(game_id) ==
    LET Live(api, live, actions) ==
            IF live.ok /\ Truthy(live.value) /\ live.value.t = "dict"
               /\ Truthy(actions) /\ actions.t = "list"
            THEN [out |-> live, tried |-> <<"live PlayByPlay">>]
            ELSE TryStatsPbp(api.stats_pbp, 1, game_id, IF live.ok THEN live.value ELSE Null,
                             <<"live PlayByPlay">>)
        Called(api, live) == Live(api, live, ClientActions(live.value))
        Calls(api) == Called(api, ForGame(api.live_pbp, game_id))
    IN  Calls(nba_api)

\* datetime.date(year, month, day)
DaysInMonth(year, month) ==
    IF month = 2
    THEN (IF (year % 4 = 0 /\ year % 100 # 0) \/ year % 400 = 0 THEN 29 ELSE 28)
    ELSE IF month \in {4, 6, 9, 11} THEN 30 ELSE 31

\* An int argument: n is its value when a C int holds it (c_int); an int
\* beyond that range is known by its text only.
PyInt(n) == [n |-> n, c_int |-> TRUE]
BeyondCInt == [n |-> 0, c_int |-> FALSE, text |-> "2147483648"]

\* The three arguments are converted to C ints, then checked for range.
date(year, month, day) ==
    IF ~year.c_int \/ ~month.c_int \/ ~day.c_int THEN Raise("OverflowError")
    ELSE IF year.n \in 1..9999 /\ month.n \in 1..12
            /\ day.n \in 1..DaysInMonth(year.n, month.n)
    THEN Return([year |-> year.n, month |-> month.n, day |-> day.n])
    ELSE Raise("ValueError")

\* f"{n:02d}"
Pad2(n) == IF n \in 0..9 THEN "0" \o ToString(n) ELSE ToString(n)

\* The live scoreboard is used only when no date is given.
NBAApiClient_get_scoreboard_live_without_date(game_date) ==
    LET Calls(api) ==
            IF game_date = Null
            THEN [out |-> api.live_scoreboard, tried |-> <<"live ScoreBoard">>]
            ELSE [out |-> api.scoreboard_v2,
                  tried |-> <<"ScoreboardV2 " \o Pad2(game_date.month) \o "/"
                              \o Pad2(game_date.day) \o "/" \o ToString(game_date.year)>>]
    IN  Calls(nba_api)

\* NBAApiClient.get_scoreboard(game_date): the outcome and the upstream
\* endpoint called.  The outcome of an endpoint is what get_dict() and the
\* alternative accesses of lines 40-67 give together.
NBAApiClient_get_scoreboard(game_date) ==
    LET Calls(api) ==
            IF game_date = Null \/ game_date = today
            THEN [out |-> api.live_scoreboard, tried |-> <<"live ScoreBoard">>]
            ELSE [out |-> api.scoreboard_v2,
                  tried |-> <<"ScoreboardV2 " \o Pad2(game_date.month) \o "/"
                              \o Pad2(game_date.day) \o "/" \o ToString(game_date.year)>>]
    IN  Calls(nba_api)

\* The dates the service may live through.
Days == {[year |-> 2024, month |-> 2, day |-> 28], [year |-> 2024, month |-> 2, day |-> 29]}

\* The client called by itself, in every upstream state.
InitClient ==
    /\ call = NoCall /\ kept = NoCall
    /\ _redis_client = Null /\ redis_pkg = "ok" /\ redis_up = TRUE
    /\ store = <<>>
    /\ upstream \in ClientUpstreams
    /\ today \in Days

ClientGetGameSummary ==
    \E game_id \in {Str(NbaA), Str(NbaB), Str(<<"22300123">>)} :
        /\ call = NoCall
        /\ UNCHANGED <<kept, storeVars, upstreamVars>>
        /\ LET Called(r) ==
                    call' = [fn |-> "NBAApiClient.get_game_summary", arg |-> game_id,
                             result |-> r.out, tried |-> r.tried]
           IN  Called(NBAApiClient_get_game_summary(game_id))

ClientGetPlayByPlay ==
    \E game_id \in {Str(NbaA), Str(NbaB)} :
        /\ call = NoCall
        /\ UNCHANGED <<kept, storeVars, upstreamVars>>
        /\ LET Called(r) ==
                    call' = [fn |-> "NBAApiClient.get_play_by_play", arg |-> game_id,
                             result |-> r.out, tried |-> r.tried]
           IN  Called(NBAApiClient_get_play_by_play(game_id))

ClientGetScoreboard ==
    \E game_date \in {Null} \cup Days :
        /\ call = NoCall
        /\ UNCHANGED <<kept, storeVars, upstreamVars>>
        /\ LET Called(r) ==
                    call' = [fn |-> "NBAApiClient.get_scoreboard", arg |-> game_date,
                             result |-> r.out, tried |-> r.tried]
           IN  Called(NBAApiClient_get_scoreboard(game_date))

\* The caller has taken the result.
ResultTaken ==
    /\ call # NoCall
    /\ call' = NoCall
    /\ UNCHANGED <<kept, storeVars, upstreamVars>>

NextClient == ClientGetGameSummary \/ ClientGetPlayByPlay \/ ClientGetScoreboard \/ ResultTaken

SpecClient == InitClient /\ [][NextClient]_vars

(***************************************************************************)
(* app/endpoints/games.py and app/endpoints/schedule.py                    *)
(***************************************************************************)
\* The If-None-Match request header.
NoHeader == [present |-> FALSE]
Header(text) == [present |-> TRUE, text |-> text]

\* raise HTTPException(status_code, detail)
HTTPException(status_code, detail) ==
    [ok |-> FALSE, exc |-> "HTTPException", status_code |-> status_code, detail |-> detail]

\* The name of the exception class in place of its message.
Message_class_name(raised) == raised.exc

\* str(e) of a raised exception.
Message(raised) ==
    IF raised.exc = "HTTPException"
    THEN ToString(raised.status_code) \o ": " \o raised.detail
    ELSE IF raised.exc = "ImportError" /\ "msg" \in DOMAIN raised THEN raised.msg
    ELSE IF raised.exc = "OverflowError" THEN "signed integer is greater than maximum"
    ELSE raised.exc

\* Exceptions caught by "except ValueError".
ValueErrors == {"ValueError", "JSONDecodeError", "UnicodeDecodeError"}

\* What the client gets.  The headers set on the injected response object
\* go out with the returned payload only.
Response200(payload, headers) == [status |-> 200, body |-> payload, headers |-> headers]
Response304 == [status |-> 304, body |-> Null, headers |-> <<>>]
ErrorResponse(status_code, detail) ==
    [status |-> status_code, body |-> Dict(<< <<"detail", Str(<<detail>>)>> >>),
     headers |-> <<>>]

\* What a handler did besides answering: store lookups made, the provider id
\* given to the client, upstream endpoints called, and whether a payload and
\* its ETag were computed.
Trace(lookups, nba_game_id, tried, payload, etag) ==
    [lookups |-> lookups, nba_game_id |-> nba_game_id, tried |-> tried,
     payload |-> payload, etag |-> etag]

\* An identifier that resolves to nothing is passed on as if it had resolved.
ResolveGameId_unchecked(game_id) ==
    LET Looked(found) ==
            [out |-> IF ~found.out.ok THEN found.out
                     ELSE Return([nba_game_id |-> found.out.value, game_uuid |-> Str(game_id)]),
             lookups |-> 1, client |-> found.client]
    IN  IF is_nba_game_id(game_id)
        THEN [out |-> Return([nba_game_id |-> Str(game_id),
                              game_uuid |-> Str(nba_game_id_to_uuid(game_id).value)]),
              lookups |-> 0, client |-> _redis_client]
        ELSE Looked(get_nba_game_id_from_uuid(game_id))

\* games.py lines 36-50 and 84-98: the provider id and the response id of
\* the request, the number of store lookups and the value left in
\* _redis_client.
\* The store is consulted for an identifier in provider form too.
ResolveGameId_always_looks_up(game_id) ==
    LET Looked(found) ==
            [out |-> IF is_nba_game_id(game_id)
                     THEN Return([nba_game_id |-> Str(game_id),
                                  game_uuid |-> Str(nba_game_id_to_uuid(game_id).value)])
                     ELSE IF ~found.out.ok THEN found.out
                     ELSE IF ~Truthy(found.out.value)
                     THEN HTTPException(404, "Game ID " \o Cat(game_id)
                             \o " not found in cache. Game may not be in today's schedule.")
                     ELSE Return([nba_game_id |-> found.out.value, game_uuid |-> Str(game_id)]),
             lookups |-> 1, client |-> found.client]
    IN  Looked(get_nba_game_id_from_uuid(game_id))

\* The response id of a looked-up game is derived from the provider id found.
ResolveGameId_derived_id(game_id) ==
    LET Looked(found) ==
            [out |-> IF ~found.out.ok THEN found.out
                     ELSE IF ~Truthy(found.out.value)
                     THEN HTTPException(404, "Game ID " \o Cat(game_id)
                             \o " not found in cache. Game may not be in today's schedule.")
                     ELSE Return([nba_game_id |-> found.out.value,
                                  game_uuid |-> Str(nba_game_id_to_uuid(found.out.value.s).value)]),
             lookups |-> 1, client |-> found.client]
    IN  IF is_nba_game_id(game_id)
        THEN [out |-> Return([nba_game_id |-> Str(game_id),
                              game_uuid |-> Str(nba_game_id_to_uuid(game_id).value)]),
              lookups |-> 0, client |-> _redis_client]
        ELSE Looked(get_nba_game_id_from_uuid(game_id))

ResolveGameId(game_id) ==
    LET Looked(found) ==
            [out |-> IF ~found.out.ok THEN found.out
                     ELSE IF ~Truthy(found.out.value)
                     THEN HTTPException(404, "Game ID " \o Cat(game_id)
                             \o " not found in cache. Game may not be in today's schedule.")
                     ELSE Return([nba_game_id |-> found.out.value, game_uuid |-> Str(game_id)]),
             lookups |-> 1, client |-> found.client]
    IN  IF is_nba_game_id(game_id)
        THEN [out |-> Return([nba_game_id |-> Str(game_id),
                              game_uuid |-> Str(nba_game_id_to_uuid(game_id).value)]),
              lookups |-> 0, client |-> _redis_client]
        ELSE Looked(get_nba_game_id_from_uuid(game_id))

\* One freshness directive for every endpoint.
CacheControl_one_lifetime(endpoint) == "max-age=60"

\* The freshness directive of each endpoint.
CacheControl(endpoint) ==
    CASE endpoint = "summary" -> "max-age=60"
      [] endpoint = "pbp" -> "max-age=30"
      [] endpoint = "schedule" -> "max-age=3600"

\* Any If-None-Match header is taken as a match.
NotModified_any_header(if_none_match, etag) ==
    if_none_match.present /\ if_none_match.text # ""

\* if if_none_match and if_none_match == etag
NotModified(if_none_match, etag) ==
    if_none_match.present /\ if_none_match.text # "" /\ if_none_match.text = etag

\* The payload is always sent, whatever the request header.
Conditional_always_send(endpoint, payload, etag, if_none_match) ==
    Response200(payload, [ETag |-> etag, CacheControl |-> CacheControl(endpoint)])

\* The status is set on the injected response object and that object is
\* returned, with the headers it was given.
Conditional_injected_response(endpoint, payload, etag, if_none_match) ==
    IF NotModified(if_none_match, etag)
    THEN [status |-> 304, body |-> Null,
          headers |-> [ETag |-> etag, CacheControl |-> CacheControl(endpoint)]]
    ELSE Response200(payload, [ETag |-> etag, CacheControl |-> CacheControl(endpoint)])

\* Lines 56-65 of games.py, 117-126, and 48-57 of schedule.py.
Conditional(endpoint, payload, etag, if_none_match) ==
    IF NotModified(if_none_match, etag) THEN Response304
    ELSE Response200(payload, [ETag |-> etag, CacheControl |-> CacheControl(endpoint)])

\* The body of the two handlers of games.py, which differ in the client
\* method, the transformer, the cache lifetime and the error text.
GamesHandler(endpoint, game_id, if_none_match) ==
    LET what == IF endpoint = "summary" THEN "game summary" ELSE "play-by-play"
        Error(raised, client, trace) ==
            [response |-> ErrorResponse(500, "Error fetching " \o what \o ": " \o Message(raised)),
             client |-> client, trace |-> trace]
        Respond(resolved, nba_game_id, fetched, payload, etag) ==
            [response |-> Conditional(endpoint, payload, etag, if_none_match),
             client |-> resolved.client,
             trace |-> Trace(resolved.lookups, nba_game_id, fetched.tried, payload, Str(<<etag>>))]
        Transformed(resolved, nba_game_id, fetched, payload) ==
            IF ~payload.ok
            THEN Error(payload, resolved.client,
                       Trace(resolved.lookups, nba_game_id, fetched.tried, Null, Null))
            ELSE Respond(resolved, nba_game_id, fetched, payload.value,
                         calculate_etag(payload.value))
        Fetched(resolved, ids, fetched) ==
            IF ~fetched.out.ok
            THEN Error(fetched.out, resolved.client,
                       Trace(resolved.lookups, ids.nba_game_id, fetched.tried, Null, Null))
            ELSE Transformed(resolved, ids.nba_game_id, fetched,
                    IF endpoint = "summary"
                    THEN transform_boxscore_to_summary(fetched.out.value, ids.game_uuid)
                    ELSE transform_playbyplay_to_pbp(fetched.out.value, ids.game_uuid))
        Resolved(resolved) ==
            IF ~resolved.out.ok
            THEN Error(resolved.out, resolved.client,
                       Trace(resolved.lookups, Null, <<>>, Null, Null))
            ELSE Fetched(resolved, resolved.out.value,
                    IF endpoint = "summary"
                    THEN NBAApiClient_get_game_summary(resolved.out.value.nba_game_id)
                    ELSE NBAApiClient_get_play_by_play(resolved.out.value.nba_game_id))
    IN  Resolved(ResolveGameId(game_id))

get_game_summary(game_id, if_none_match) == GamesHandler("summary", game_id, if_none_match)

get_play_by_play(game_id, if_none_match) == GamesHandler("pbp", game_id, if_none_match)

get_schedule(year, month, day, if_none_match) ==
    LET Error(raised, tried) ==
            [response |-> IF raised.exc \in ValueErrors
                          THEN ErrorResponse(400, "Invalid date: " \o Message(raised))
                          ELSE ErrorResponse(500, "Error fetching schedule: " \o Message(raised)),
             client |-> _redis_client, trace |-> Trace(0, Null, tried, Null, Null)]
        Respond(fetched, payload, etag) ==
            [response |-> Conditional("schedule", payload, etag, if_none_match),
             client |-> _redis_client,
             trace |-> Trace(0, Null, fetched.tried, payload, Str(<<etag>>))]
        Transformed(fetched, payload) ==
            IF ~payload.ok THEN Error(payload, fetched.tried)
            ELSE Respond(fetched, payload.value, calculate_etag(payload.value))
        Fetched(fetched) ==
            IF ~fetched.out.ok THEN Error(fetched.out, fetched.tried)
            ELSE Transformed(fetched,
                    transform_scoreboard_to_schedule(fetched.out.value,
                        Str(<<ToString(year.n), "-", Pad2(month.n), "-", Pad2(day.n)>>)))
        Dated(game_date) ==
            IF ~game_date.ok THEN Error(game_date, <<>>)
            ELSE Fetched(NBAApiClient_get_scoreboard(game_date.value))
    IN  Dated(date(year, month, day))

(***************************************************************************)
(* The service and its environment                                         *)
(***************************************************************************)
\* The dates the service may live through, and the dates asked for.
Years == {PyInt(2023), PyInt(2024), BeyondCInt}
Months == {PyInt(2)}
DaysOfMonth == {PyInt(29)}

\* The identifiers asked for.
GameIds == {NbaA, UuidA, Opaque}

\* What the ingestion side may have left under the key of UuidA.
ServiceTexts ==
    {Absent,
     JsonText(Dict(<< <<"nba_game_id", Str(NbaA)>>, <<"status", Str(<<"scheduled">>)>> >>)),
     JsonText(Dict(<< <<"status", Str(<<"scheduled">>)>> >>))}

\* The If-None-Match headers of a client that holds no response: none, or
\* an empty one.
FreshHeaders == {NoHeader, Header("")}

\* The first response of a revalidation; NoFirst for any other request.
NoFirst == [status |-> 0]

Init ==
    /\ call = NoCall /\ kept = NoCall
    /\ _redis_client = Null
    /\ redis_pkg = "ok"
    /\ redis_up = TRUE
    /\ store = [k \in StoreKeys |-> Absent]
    /\ upstream \in Upstreams
    /\ today \in Days

\* The record of a request: first is the response it revalidates, served
\* what its handler gave.
Request(fn, resource, if_none_match, first, served) ==
    [fn |-> fn, resource |-> resource, if_none_match |-> if_none_match,
     first |-> first, response |-> served.response, trace |-> served.trace]

GetGameSummary ==
    \E game_id \in GameIds, if_none_match \in FreshHeaders :
        /\ UNCHANGED <<kept, redis_pkg, redis_up, store, upstreamVars>>
        /\ LET Served(served) ==
                    /\ call' = Request("get_game_summary", game_id, if_none_match, NoFirst, served)
                    /\ _redis_client' = served.client
           IN  Served(get_game_summary(game_id, if_none_match))

GetPlayByPlay ==
    \E game_id \in GameIds, if_none_match \in FreshHeaders :
        /\ UNCHANGED <<kept, redis_pkg, redis_up, store, upstreamVars>>
        /\ LET Served(served) ==
                    /\ call' = Request("get_play_by_play", game_id, if_none_match, NoFirst, served)
                    /\ _redis_client' = served.client
           IN  Served(get_play_by_play(game_id, if_none_match))

GetSchedule ==
    \E year \in Years, month \in Months, day \in DaysOfMonth, if_none_match \in FreshHeaders :
        /\ UNCHANGED <<kept, redis_pkg, redis_up, store, upstreamVars>>
        /\ LET Served(served) ==
                    /\ call' = Request("get_schedule", <<year, month, day>>, if_none_match,
                                       NoFirst, served)
                    /\ _redis_client' = served.client
           IN  Served(get_schedule(year, month, day, if_none_match))

\* The handler the router gives a request to.
Route(fn, resource, if_none_match) ==
    CASE fn = "get_game_summary" -> get_game_summary(resource, if_none_match)
      [] fn = "get_play_by_play" -> get_play_by_play(resource, if_none_match)
      [] fn = "get_schedule" ->
            get_schedule(resource[1], resource[2], resource[3], if_none_match)

\* The client that has just received a 200 response asks for the same
\* resource again, sending the ETag it received, as it is or marked weak.
Revalidate ==
    /\ call # NoCall /\ call.response.status = 200
    /\ \E if_none_match \in {Header(call.response.headers.ETag),
                             Header("W/" \o call.response.headers.ETag)} :
        /\ UNCHANGED <<kept, redis_pkg, redis_up, store, upstreamVars>>
        /\ LET Served(served) ==
                    /\ call' = Request(call.fn, call.resource, if_none_match,
                                       [status |-> 200, ETag |-> call.response.headers.ETag],
                                       served)
                    /\ _redis_client' = served.client
           IN  Served(Route(call.fn, call.resource, if_none_match))

\* The ingestion side writes, replaces or expires the record of UuidA.
IngestionWrites ==
    \E text \in ServiceTexts :
        /\ store[MetaKey(UuidA)] # text
        /\ store' = [store EXCEPT ![MetaKey(UuidA)] = text]
        /\ call' = NoCall /\ kept' = NoCall
        /\ UNCHANGED <<_redis_client, redis_pkg, redis_up, upstreamVars>>

\* The upstream data changes.
UpstreamChanges ==
    \E next \in Upstreams :
        /\ next # upstream
        /\ upstream' = next
        /\ call' = NoCall /\ kept' = NoCall
        /\ UNCHANGED <<storeVars, today>>

\* Midnight in US Eastern time.
DayChanges ==
    \E next \in Days :
        /\ next # today
        /\ today' = next
        /\ call' = NoCall /\ kept' = NoCall
        /\ UNCHANGED <<storeVars, upstream>>

Next ==
    \/ GetGameSummary \/ GetPlayByPlay \/ GetSchedule \/ Revalidate
    \/ IngestionWrites \/ RedisUpDown \/ UpstreamChanges \/ DayChanges

Spec == Init /\ [][Next]_vars

\* The process is started anew, so that every module-level name has its
\* initial value again (redis_client.py line 25).  The request answered last
\* and the handle it was answered with stay in kept, to be compared with
\* the answer of the new process.
Restart ==
    /\ kept = NoCall
    /\ call.fn \in {"get_game_summary", "get_play_by_play", "get_schedule"}
    /\ kept' = [fn |-> "restart", request |-> call, client |-> _redis_client]
    /\ call' = NoCall
    /\ _redis_client' = Null
    /\ UNCHANGED <<redis_pkg, redis_up, store, upstreamVars>>

\* The new process is given the request the old one answered last.
Replay ==
    /\ kept.fn = "restart"
    /\ UNCHANGED <<kept, redis_pkg, redis_up, store, upstreamVars>>
    /\ LET Served(served) ==
                /\ call' = Request(kept.request.fn, kept.request.resource,
                                   kept.request.if_none_match, kept.request.first, served)
                /\ _redis_client' = served.client
       IN  Served(Route(kept.request.fn, kept.request.resource, kept.request.if_none_match))

\* The old process answers any requests; the new one answers the replayed
\* request until the store or the upstream data change.
NextRestart ==
    \/ kept = NoCall /\ GetGameSummary
    \/ kept = NoCall /\ GetPlayByPlay
    \/ kept = NoCall /\ GetSchedule
    \/ IngestionWrites \/ RedisUpDown \/ UpstreamChanges \/ DayChanges
    \/ Restart \/ Replay

SpecRestart == Init /\ [][NextRestart]_vars

\* The games endpoints asked for every kind of identifier, the store holding
\* under each key a record of either game, a record without a provider id,
\* or nothing.
ResolveIds == {NbaA, NbaB, UuidA, UuidB, Opaque}

ResolveTexts ==
    {Absent,
     JsonText(Dict(<< <<"nba_game_id", Str(NbaA)>>, <<"status", Str(<<"scheduled">>)>> >>)),
     JsonText(Dict(<< <<"nba_game_id", Str(NbaB)>> >>)),
     JsonText(Dict(<< <<"status", Str(<<"scheduled">>)>> >>))}

InitResolve ==
    /\ call = NoCall /\ kept = NoCall
    /\ _redis_client = Null
    /\ redis_pkg = "ok"
    /\ redis_up = TRUE
    /\ store \in [StoreKeys -> ResolveTexts]
    /\ upstream \in {"in progress", "final"}
    /\ today = [year |-> 2024, month |-> 2, day |-> 29]

ResolveSummary ==
    \E game_id \in ResolveIds :
        /\ UNCHANGED <<kept, redis_pkg, redis_up, store, upstreamVars>>
        /\ LET Served(served) ==
                    /\ call' = Request("get_game_summary", game_id, NoHeader, NoFirst, served)
                    /\ _redis_client' = served.client
           IN  Served(get_game_summary(game_id, NoHeader))

ResolvePlayByPlay ==
    \E game_id \in ResolveIds :
        /\ UNCHANGED <<kept, redis_pkg, redis_up, store, upstreamVars>>
        /\ LET Served(served) ==
                    /\ call' = Request("get_play_by_play", game_id, NoHeader, NoFirst, served)
                    /\ _redis_client' = served.client
           IN  Served(get_play_by_play(game_id, NoHeader))

NextResolve == ResolveSummary \/ ResolvePlayByPlay \/ RedisUpDown

SpecResolve == InitResolve /\ [][NextResolve]_vars

\* The schedule endpoint in every state of the two scoreboard endpoints.
InitSchedule ==
    /\ call = NoCall /\ kept = NoCall
    /\ _redis_client = Null
    /\ redis_pkg = "ok"
    /\ redis_up = TRUE
    /\ store = [k \in StoreKeys |-> Absent]
    /\ upstream \in ScoreboardUpstreams
    /\ today \in Days

NextSchedule == GetSchedule \/ DayChanges

SpecSchedule == InitSchedule /\ [][NextSchedule]_vars

(***************************************************************************)
(* Claims about the mapper (checked under SpecMapper)                      *)
(***************************************************************************)
\* The whitespace trim of s, characterised without the code's strip: the
\* part of s left after removing a whitespace-only prefix and suffix, itself
\* neither starting nor ending with whitespace.
IsTrimOf(t, s) ==
    \E a, b \in 0..Len(s) :
        /\ a + b <= Len(s)
        /\ \A i \in 1..a : s[i] \in Whitespace
        /\ \A i \in (Len(s) - b + 1)..Len(s) : s[i] \in Whitespace
        /\ t = SubSeq(s, a + 1, Len(s) - b)
        /\ t # <<>> => (t[1] \notin Whitespace /\ t[Len(t)] \notin Whitespace)

Trimmed(s) ==
    CHOOSE t \in {SubSeq(s, a, b) : a \in 1..(Len(s) + 1), b \in 0..Len(s)} : IsTrimOf(t, s)

\* C7: is_nba_game_id returns true if and only if its input consists of
\* exactly 10 ASCII decimal digits.
C7_TenAsciiDigits ==
    call.fn = "is_nba_game_id" =>
        (call.result.value <=>
            (Len(call.arg) = 10 /\ \A i \in 1..Len(call.arg) : call.arg[i] \in AsciiDigits))

\* C8: nba_game_id_to_uuid is a function of the whitespace-trimmed input
\* alone: two calls whose inputs have the same trim have the same outcome,
\* whatever was called in between, and two calls whose inputs have different
\* trims (by case or zero padding too) have different outcomes.
C8_FunctionOfTrimmedId ==
    (call.fn = "nba_game_id_to_uuid" /\ kept.fn = "nba_game_id_to_uuid") =>
        ((Trimmed(call.arg) = Trimmed(kept.arg)) <=> (call.result = kept.result))

\* Two different inputs with the same non-empty trim were both derived.
C8_Witness ==
    /\ call.fn = "nba_game_id_to_uuid" /\ kept.fn = "nba_game_id_to_uuid"
    /\ call.arg # kept.arg
    /\ Trimmed(call.arg) = Trimmed(kept.arg)
    /\ call.result.ok /\ call.result = kept.result

\* C9: nba_game_id_to_uuid raises ValueError exactly when its input is empty
\* after trimming whitespace, and returns an identifier for every other input.
C9_ValueErrorIffEmptyTrim ==
    call.fn = "nba_game_id_to_uuid" =>
        IF Trimmed(call.arg) = <<>>
        THEN call.result = Raise("ValueError")
        ELSE call.result.ok /\ call.result.value # <<>>

\* A non-empty input made of whitespace only was rejected.
C9_Witness ==
    /\ call.fn = "nba_game_id_to_uuid"
    /\ call.arg # <<>>
    /\ call.result = Raise("ValueError")

(***************************************************************************)
(* Claims about the ETag (checked under SpecEtag)                          *)
(***************************************************************************)
\* Equality of two JSON values as Python compares them: dicts as mappings,
\* whatever the insertion order of their keys; lists item by item.
RECURSIVE SameMapping(_, _)
SameMapping(v, w) ==
    IF v.t # w.t THEN FALSE
    ELSE CASE v.t = "dict" ->
                /\ Keys(v) = Keys(w)
                /\ \A k \in Keys(v) : SameMapping(Item(v, k), Item(w, k))
           [] v.t = "list" ->
                /\ Len(v.items) = Len(w.items)
                /\ \A i \in 1..Len(v.items) : SameMapping(v.items[i], w.items[i])
           [] OTHER -> v = w

\* C5: calculate_etag returns the same token for any two payloads that are
\* equal as mappings and differ only in key insertion order, at every
\* nesting level.
C5_KeyOrderInsensitive ==
    (call.fn = "calculate_etag" /\ kept.fn = "calculate_etag"
        /\ SameMapping(call.arg, kept.arg)) => call.result = kept.result

\* Two payloads that differ in the key order of a dict nested inside a list
\* and in the key order of the outer dict got the same token.
C5_Witness ==
    /\ call.fn = "calculate_etag" /\ kept.fn = "calculate_etag"
    /\ SameMapping(call.arg, kept.arg)
    /\ call.arg.kv[1][1] # kept.arg.kv[1][1]
    /\ \E u, w \in Nested(MaxNest - 1) :
          /\ u.t = "dict" /\ w.t = "dict" /\ u # w
          /\ Item(call.arg, "a") = List(<<u>>) /\ Item(kept.arg, "a") = List(<<w>>)
    /\ call.result = kept.result

(***************************************************************************)
(* Claims about the store lookup (checked under SpecStore)                 *)
(***************************************************************************)
\* C10: with the store reachable, get_nba_game_id_from_uuid(s) returns the
\* nba_game_id field of the record stored at key game:meta:{s}, and returns
\* None when the key is absent, when the stored text does not parse as a
\* record, and when the record has no nba_game_id field.
C10_FieldOrNotFound ==
    (call.fn = "get_nba_game_id_from_uuid" /\ redis_pkg = "ok" /\ redis_up) =>
        LET key == "game:meta:" \o Cat(call.arg)
            text == IF key \in DOMAIN store THEN store[key] ELSE Absent
            isRecord == text.text = "json" /\ text.value.t = "dict"
        IN  IF isRecord /\ "nba_game_id" \in Keys(text.value)
            THEN call.result = Return(Item(text.value, "nba_game_id"))
            ELSE call.result = Return(Null)

\* The store cannot be reached or read for game_uuid: no client can be
\* made, the server does not answer, or the text under the key is not the
\* JSON text of a record.
StoreFailure(game_uuid) ==
    LET key == "game:meta:" \o Cat(game_uuid)
        text == IF key \in DOMAIN store THEN store[key] ELSE Absent
    IN  \/ redis_pkg # "ok"
        \/ ~redis_up
        \/ text = Garbage
        \/ text.text = "json" /\ text.value.t # "dict"

\* C11: get_nba_game_id_from_uuid never raises, and whenever the store
\* cannot be reached or read (no client, failed connection test, failed
\* get, stored payload that is not a record) it returns None.
C11_FailureIsNotFound ==
    call.fn = "get_nba_game_id_from_uuid" =>
        /\ call.result.ok
        /\ StoreFailure(call.arg) => call.result = Return(Null)

(***************************************************************************)
(* Claims about the status mapping (checked under SpecStatus)              *)
(***************************************************************************)
\* word occurs in text whatever the case of the text.
Mentions(text, word) ==
    text # Null /\ \E i \in 1..Len(text.s) : LowerPiece(text.s[i]) = word

\* The rules of the status classification, in their order of priority:
\* whether the rule applies, and the status it gives.
StatusRules(a) ==
    << <<a.game_status = Num(2), "inprogress">>,
       <<a.game_status = Num(3), "closed">>,
       <<Mentions(a.status_text, "final"), "closed">>,
       <<Mentions(a.status_text, "live") \/ Mentions(a.status_text, "in progress"),
         "inprogress">>,
       <<Mentions(a.status_text, "postponed"), "postponed">>,
       <<Mentions(a.status_text, "delayed"), "delayed">>,
       <<\E w \in {"pm", "am", "et"} : Mentions(a.status_text, w), "scheduled">>,
       <<a.period # Null /\ a.clock \notin {Null, Str(<<>>)}, "inprogress">>,
       <<TRUE, "scheduled">> >>

\* The status of the first rule that applies.
Classified(a) ==
    LET rules == StatusRules(a)
        first == CHOOSE i \in 1..Len(rules) :
                    rules[i][1] /\ \A j \in 1..(i - 1) : ~rules[j][1]
    IN  rules[first][2]

\* C12: _map_game_status gives, for every status code, status text, period
\* and clock, the status of the first rule that applies in the order: code
\* 2, code 3, the words final, live / in progress, postponed, delayed,
\* pm / am / et in the text whatever its case, period present with a
\* non-empty clock, and scheduled otherwise.
C12_FirstMatchingRule ==
    call.fn = "_map_game_status" =>
        call.result = Return(Str(<<Classified(call.arg)>>))

\* A text rule wins over the period/clock rule: a postponed game that still
\* carries a period and a clock.
C12_Witness ==
    /\ call.fn = "_map_game_status"
    /\ call.arg.game_status = Num(1)
    /\ call.arg.status_text = Str(<<"Postponed">>)
    /\ call.arg.period = Num(4) /\ call.arg.clock = Str(<<"0:00">>)
    /\ call.result = Return(Str(<<"postponed">>))

(***************************************************************************)
(* Claims about the transformers (checked under SpecTransform)             *)
(***************************************************************************)
Statuses ==
    {Str(<<w>>) : w \in {"scheduled", "inprogress", "closed", "postponed", "delayed"}}

\* The status values a transformed payload carries: of a schedule those of
\* its game entries, of a summary its own.
EmittedStatuses(fn, payload) ==
    IF fn = "transform_scoreboard_to_schedule"
    THEN {Item(Item(payload, "games").items[i], "status") :
            i \in 1..Len(Item(payload, "games").items)}
    ELSE {Item(payload, "status")}

\* C13: every status in a game entry of a schedule and in a summary, for
\* any upstream data, is one of scheduled, inprogress, closed, postponed,
\* delayed.
C13_StatusInClosedSet ==
    (call.fn \in {"transform_scoreboard_to_schedule", "transform_boxscore_to_summary"}
     /\ call.result.ok) =>
        EmittedStatuses(call.fn, call.result.value) \subseteq Statuses

\* A schedule entry for a game whose status text no rule matches.
C13_Witness ==
    /\ call.fn = "transform_scoreboard_to_schedule"
    /\ call.result.ok
    /\ call.arg = Dict(<< <<"scoreboard",
            Dict(<< <<"gameDate", Str(<<"2024-02-29">>)>>,
                    <<"games", List(<<StatusGame(Num(1), Str(<<"Halftime">>),
                                                 Null, Null)>>)>> >>)>> >>)
    /\ EmittedStatuses(call.fn, call.result.value) = {Str(<<"scheduled">>)}

\* v is a JSON object that has key k with a value of type t.
HasTyped(v, k, t) == v.t = "dict" /\ HasKey(v, k) /\ Item(v, k).t = t

\* data has one of the formats the transformer fn is written for: the live
\* formats carry their games or actions in an object or a list under
\* 'scoreboard', 'game' or 'actions', the stats format carries a list under
\* 'resultSets'.
Understood(fn, data) ==
    \/ HasTyped(data, "resultSets", "list")
    \/ /\ fn = "transform_scoreboard_to_schedule"
       /\ HasTyped(data, "scoreboard", "dict")
       /\ HasTyped(Item(data, "scoreboard"), "games", "list")
    \/ /\ fn = "transform_boxscore_to_summary"
       /\ HasTyped(data, "game", "dict")
    \/ /\ fn = "transform_playbyplay_to_pbp"
       /\ \/ HasTyped(data, "game", "dict") \/ HasTyped(data, "game", "list")
          \/ HasTyped(data, "actions", "list")

\* The default payload of each transformer; key is its second argument.
DefaultPayload(fn, key) ==
    CASE fn = "transform_scoreboard_to_schedule" ->
            Dict(<< <<"date", key>>, <<"games", List(<<>>)>> >>)
      [] fn = "transform_boxscore_to_summary" ->
            Dict(<< <<"id", key>>, <<"status", Str(<<"inprogress">>)>>,
                    <<"home", Dict(<<>>)>>, <<"away", Dict(<<>>)>> >>)
      [] fn = "transform_playbyplay_to_pbp" ->
            Dict(<< <<"id", key>>, <<"sequence", Num(0)>>, <<"events", List(<<>>)>> >>)

Transformers ==
    {"transform_scoreboard_to_schedule", "transform_boxscore_to_summary",
     "transform_playbyplay_to_pbp"}

\* C16: for upstream data in none of the formats a transformer understands,
\* the transformer does not fail and returns its default payload:
\* {date, games: []}, {id, status, home: {}, away: {}} or
\* {id, sequence: 0, events: []}.
C16_UnknownShapeGivesDefault ==
    (call.fn \in Transformers /\ ~Understood(call.fn, call.arg)) =>
        call.result = Return(DefaultPayload(call.fn, call.key))

(***************************************************************************)
(* Claims about the endpoints (checked under Spec)                         *)
(***************************************************************************)
GameEndpoints == {"get_game_summary", "get_play_by_play"}
Endpoints == GameEndpoints \cup {"get_schedule"}

\* Resolution of game_id through the store yields NotFound: the id is not
\* in provider form and the lookup gives no provider id.
NotFound(game_id) ==
    /\ ~is_nba_game_id(game_id)
    /\ LET found == get_nba_game_id_from_uuid(game_id).out
       IN  found.ok /\ ~Truthy(found.value)

\* C1: once a payload has been produced, the response is 304 with an empty
\* body iff the If-None-Match header is present and equal, as a string, to
\* the ETag computed for that payload; in every other case it is 200 and
\* carries the payload.
C1_NotModifiedIffExactMatch ==
    (call.fn \in Endpoints /\ call.trace.payload # Null) =>
        IF call.if_none_match.present
           /\ call.if_none_match.text = calculate_etag(call.trace.payload)
        THEN call.response.status = 304 /\ call.response.body = Null
        ELSE call.response.status = 200 /\ call.response.body = call.trace.payload

\* A schedule request whose header matches, and is answered 304.
C1_Witness ==
    /\ call.fn = "get_schedule" /\ call.trace.payload # Null
    /\ call.if_none_match.present
    /\ call.if_none_match.text = calculate_etag(call.trace.payload)
    /\ call.response.status = 304

\* C2: when a request was answered 200 with ETag E and a second request for
\* the same resource carries If-None-Match E while nothing the payload is
\* made from has changed, the second request is answered 304.
C2_RevalidationGives304 ==
    (call.fn \in Endpoints /\ call.first.status = 200
     /\ call.if_none_match = Header(call.first.ETag)) =>
        call.response.status = 304

\* A summary just received is revalidated with its own ETag.
C2_Witness ==
    /\ call.fn = "get_game_summary" /\ call.first.status = 200
    /\ call.if_none_match = Header(call.first.ETag)
    /\ UuidA = call.resource

\* C3: for the summary and the play-by-play endpoint, when the id is not in
\* provider form and resolving it through the store yields NotFound, the
\* response status is 404.
C3_NotFoundIs404 ==
    (call.fn \in GameEndpoints /\ NotFound(call.resource)) => call.response.status = 404

\* C4: in a request to the summary or the play-by-play endpoint where
\* resolution yields NotFound, the upstream client is not called, no
\* transformation is run and no ETag is computed.
C4_NotFoundFetchesNothing ==
    (call.fn \in GameEndpoints /\ NotFound(call.resource)) =>
        /\ call.trace.nba_game_id = Null
        /\ call.trace.tried = <<>>
        /\ call.trace.payload = Null
        /\ call.trace.etag = Null

\* A play-by-play request for an id the store does not know, one lookup made.
C4_Witness ==
    /\ call.fn = "get_play_by_play" /\ NotFound(call.resource)
    /\ call.trace.lookups = 1

\* The max-age of each endpoint.
MaxAge(fn) ==
    CASE fn = "get_game_summary" -> "max-age=60"
      [] fn = "get_play_by_play" -> "max-age=30"
      [] fn = "get_schedule" -> "max-age=3600"

\* C6: every 200 response of the three endpoints carries an ETag header equal
\* to calculate_etag of the body returned, and a Cache-Control header with
\* max-age 60 for summary, 30 for play-by-play and 3600 for schedule.
C6_HeadersOf200 ==
    (call.fn \in Endpoints /\ call.response.status = 200) =>
        /\ call.response.headers.ETag = calculate_etag(call.response.body)
        /\ call.response.headers.CacheControl = MaxAge(call.fn)

\* A 200 answer of the play-by-play endpoint with events in its body.
C6_Witness ==
    /\ call.fn = "get_play_by_play" /\ call.response.status = 200
    /\ Item(call.response.body, "events").items # <<>>

\* year, month and day form a date of the calendar: a year from 1 to 9999,
\* a month from 1 to 12 and a day that the month has in that year.
IsCalendarDate(year, month, day) ==
    /\ year.c_int /\ month.c_int /\ day.c_int
    /\ year.n \in 1..9999 /\ month.n \in 1..12
    /\ LET leap == year.n % 400 = 0 \/ (year.n % 4 = 0 /\ year.n % 100 # 0)
           days == <<31, IF leap THEN 29 ELSE 28, 31, 30, 31, 30, 31, 31, 30, 31, 30, 31>>
       IN  day.n \in 1..days[month.n]

\* C14: a schedule request whose year, month and day do not form a valid
\* calendar date is answered 400, without the upstream scoreboard being
\* fetched and without an ETag being computed.
C14_InvalidDateIs400 ==
    (call.fn = "get_schedule"
     /\ ~IsCalendarDate(call.resource[1], call.resource[2], call.resource[3])) =>
        /\ call.response.status = 400
        /\ call.trace.tried = <<>>
        /\ call.trace.payload = Null /\ call.trace.etag = Null

\* The alternatives of each client method, in the order it tries them.
Alternatives(fn) ==
    IF fn = "get_game_summary"
    THEN <<"live scoreboard", "live boxscore", "BoxScoreSummaryV2", "BoxScoreTraditionalV2",
           "BoxScoreV2", "BoxScore">>
    ELSE <<"live PlayByPlay", "PlayByPlayV2 (all periods)", "PlayByPlayV2 (periods 1-4)",
           "PlayByPlay">>

RECURSIVE CommaList(_)
CommaList(names) ==
    IF Len(names) = 1 THEN names[1] ELSE names[1] \o ", " \o CommaList(Tail(names))

\* Every endpoint of nba_api a client method can turn to fails now.
EveryAlternativeFails(fn) ==
    IF fn = "get_game_summary"
    THEN /\ ~nba_api.live_scoreboard.ok /\ ~nba_api.live_boxscore.ok
         /\ ~nba_api.summary_v2.ok
         /\ \A name \in DOMAIN nba_api.stats : ~nba_api.stats[name].out.ok
    ELSE /\ ~nba_api.live_pbp.ok
         /\ \A name \in DOMAIN nba_api.stats_pbp : ~nba_api.stats_pbp[name].ok

\* C15: when every alternative of the client fails for a game, the summary
\* and play-by-play endpoints answer 500, the detail names the operation
\* that failed and carries the client's message listing the alternatives
\* tried, and no upstream endpoint was called twice.
C15_AllFailedIs500 ==
    (call.fn \in GameEndpoints /\ call.trace.nba_game_id # Null
     /\ EveryAlternativeFails(call.fn)) =>
        /\ call.response.status = 500
        /\ call.response.body =
              Dict(<< <<"detail", Str(<<
                  (IF call.fn = "get_game_summary" THEN "Error fetching game summary: "
                   ELSE "Error fetching play-by-play: ")
                  \o (IF call.fn = "get_game_summary"
                      THEN "Could not import boxscore endpoints from nba_api. "
                      ELSE "Could not import play-by-play endpoints from nba_api. ")
                  \o "Tried: " \o CommaList(Alternatives(call.fn)) \o "." >>)>> >>)
        /\ \A i, j \in 1..Len(call.trace.tried) :
              call.trace.tried[i] = call.trace.tried[j] => i = j
        /\ \A i \in 1..Len(call.trace.tried) :
              \E j \in 1..Len(Alternatives(call.fn)) :
                  call.trace.tried[i] = Alternatives(call.fn)[j]

\* A play-by-play request for a known game while nothing upstream answers:
\* the four alternatives were tried, once each.
C15_Witness ==
    /\ call.fn = "get_play_by_play"
    /\ call.trace.nba_game_id = Str(NbaA)
    /\ EveryAlternativeFails(call.fn)
    /\ call.trace.tried = Alternatives(call.fn)
    /\ call.response.status = 500

\* The fields every body of each kind must have.
RequiredFields(fn) ==
    CASE fn = "get_game_summary" -> {"id", "status", "home", "away"}
      [] fn = "get_play_by_play" -> {"id", "events"}
      [] fn = "get_schedule" -> {"id", "status", "home", "away", "nba_game_id"}

\* The objects of a body that must have the fields: the games of a
\* schedule, the body itself otherwise.
Entries(fn, body) ==
    IF fn = "get_schedule"
    THEN {Item(body, "games").items[i] : i \in 1..Len(Item(body, "games").items)}
    ELSE {body}

\* C17: every body returned with status 200 has its required fields: a
\* summary id, status, home and away; a play-by-play id and events; every
\* game entry of a schedule id, status, home, away and nba_game_id.
C17_RequiredFields ==
    (call.fn \in Endpoints /\ call.response.status = 200) =>
        \A entry \in Entries(call.fn, call.response.body) :
            entry.t = "dict" /\ RequiredFields(call.fn) \subseteq Keys(entry)

\* A schedule of two games answered with 200.
C17_Witness ==
    /\ call.fn = "get_schedule"
    /\ call.response.status = 200
    /\ Len(Item(call.response.body, "games").items) = 2

\* C18: the connection handle of the process is made at most once: once
\* _redis_client is set no step replaces or clears it, it is the first
\* handle made, and get_redis_client returns it without making another.
C18_HandleMadeOnce ==
    [][/\ _redis_client # Null => _redis_client' = _redis_client
       /\ _redis_client' # Null =>
            /\ _redis_client'.serial = 1
            /\ get_redis_client' = [out |-> Return(_redis_client'),
                                    client |-> _redis_client']]_vars

\* A lookup made through a handle whose connection test had failed when it
\* was made, after the server has come back.
C18_Witness ==
    /\ call.fn = "get_game_summary"
    /\ call.trace.lookups = 1
    /\ redis_up
    /\ _redis_client # Null /\ ~_redis_client.ping_ok

\* tried holds upstream endpoints of one pass through alternatives: each at
\* most once, in the order of alternatives.
RECURSIVE OnePass(_, _)
OnePass(tried, alternatives) ==
    IF tried = <<>> THEN TRUE
    ELSE IF alternatives = <<>> THEN FALSE
    ELSE IF Head(tried) = Head(alternatives) THEN OnePass(Tail(tried), Tail(alternatives))
    ELSE OnePass(tried, Tail(alternatives))

\* C19: a request to a games endpoint makes at most one store lookup and at
\* most one call of the upstream client, which tries each of its
\* alternatives at most once; a request whose id has the provider form
\* makes no store lookup, and neither does a schedule request, which calls
\* one upstream endpoint at most.
C19_OneLookupOneFetch ==
    /\ call.fn \in GameEndpoints =>
        /\ call.trace.lookups \in {0, 1}
        /\ is_nba_game_id(call.resource) => call.trace.lookups = 0
        /\ OnePass(call.trace.tried, Alternatives(call.fn))
    /\ call.fn = "get_schedule" =>
        /\ call.trace.lookups = 0
        /\ Len(call.trace.tried) <= 1

\* A summary request by stable id: one lookup, then one pass of the client
\* that ends at its third alternative.
C19_Witness ==
    /\ call.fn = "get_game_summary"
    /\ call.resource = UuidA
    /\ call.trace.lookups = 1
    /\ call.trace.tried = <<"live scoreboard", "live boxscore", "BoxScoreSummaryV2">>
    /\ call.response.status = 200

\* C20: handling a request changes nothing of the store, of the upstream
\* data or of the process but the connection handle, and its response and
\* its trace are those a process that has handled no request gives the same
\* request while the store and the upstream data are the same.
C20_OnlyTheHandleChanges ==
    [][call'.fn \in Endpoints =>
         /\ UNCHANGED <<redis_pkg, redis_up, store, upstream, today>>
         /\ _redis_client' # _redis_client => _redis_client = Null
         /\ ( /\ kept'.fn = "restart"
              /\ kept'.request.fn = call'.fn
              /\ kept'.request.resource = call'.resource
              /\ kept'.request.if_none_match = call'.if_none_match )
            => /\ call'.response = kept'.request.response
               /\ call'.trace = kept'.request.trace]_vars

\* A request was answered 200 through a handle whose connection test had
\* failed, and a new process has answered it again.
C20_Witness ==
    /\ kept.fn = "restart"
    /\ kept.client # Null /\ ~kept.client.ping_ok
    /\ kept.request.fn = "get_game_summary"
    /\ kept.request.resource = UuidA
    /\ kept.request.response.status = 200
    /\ call.fn = "get_game_summary"
    /\ call.resource = UuidA
    /\ call.if_none_match = kept.request.if_none_match
    /\ _redis_client # Null /\ _redis_client.ping_ok

\* The provider id held in the store under the key of s, read as the
\* store serves it now: Null when the store does not answer, holds nothing
\* under the key, or holds a record without a provider id.
HeldUnder(s) ==
    LET key == "game:meta:" \o Cat(s)
    IN  IF redis_up /\ key \in DOMAIN store /\ store[key].text = "json"
           /\ store[key].value.t = "dict" /\ HasKey(store[key].value, "nba_game_id")
        THEN Item(store[key].value, "nba_game_id")
        ELSE Null

\* C24: for an id p in provider form the fetch uses p and the response id is
\* nba_game_id_to_uuid(p), with no lookup; for any other id s the fetch
\* uses the provider id held under game:meta:{s} and the response id is s,
\* whatever that provider id derives to; nothing is fetched when no
\* provider id is held.
C24_NoReverseDerivation ==
    call.fn \in GameEndpoints =>
        IF is_nba_game_id(call.resource)
        THEN /\ call.trace.lookups = 0
             /\ call.trace.nba_game_id = Str(call.resource)
             /\ call.response.status = 200 =>
                    Item(call.response.body, "id") = Str(nba_game_id_to_uuid(call.resource).value)
        ELSE /\ call.trace.lookups = 1
             /\ call.trace.nba_game_id = HeldUnder(call.resource)
             /\ HeldUnder(call.resource) = Null => call.trace.tried = <<>>
             /\ call.response.status = 200 =>
                    Item(call.response.body, "id") = Str(call.resource)

\* The store holds the provider id of one game under the stable id of the
\* other: that game is fetched and answered under the id asked for.
C24_Witness ==
    /\ call.fn = "get_game_summary"
    /\ call.resource = UuidB
    /\ call.trace.nba_game_id = Str(NbaA)
    /\ call.trace.tried # <<>>
    /\ call.response.status = 200
    /\ Item(call.response.body, "id") = Str(UuidB)

\* C23: a call of get_redis_client never returns a handle that has not
\* passed its connection test: when the handle kept failed its test, the
\* call makes the connection and tests it again.
C23_OnlyTestedHandles ==
    /\ get_redis_client.out.ok => get_redis_client.out.value.ping_ok
    /\ (_redis_client # Null /\ ~_redis_client.ping_ok) =>
            get_redis_client.client.serial > _redis_client.serial

\* The upstream games of a scoreboard document in either shape, in order:
\* the games of a live scoreboard, the rows of the first GameHeader result
\* set of a stats scoreboard.
IsLiveScoreboard(document) ==
    /\ document.t = "dict" /\ HasKey(document, "scoreboard")
    /\ Item(document, "scoreboard").t = "dict"
    /\ HasKey(Item(document, "scoreboard"), "games")
    /\ Item(Item(document, "scoreboard"), "games").t = "list"

GameHeaders(document) ==
    {i \in 1..Len(Item(document, "resultSets").items) :
        LET rs == Item(document, "resultSets").items[i]
        IN  rs.t = "dict" /\ HasKey(rs, "name") /\ Item(rs, "name") = Str(<<"GameHeader">>)}

IsStatsScoreboard(document) ==
    /\ document.t = "dict" /\ ~HasKey(document, "scoreboard") /\ HasKey(document, "resultSets")
    /\ Item(document, "resultSets").t = "list"
    /\ \A i \in 1..Len(Item(document, "resultSets").items) :
            Item(document, "resultSets").items[i].t = "dict"
    /\ GameHeaders(document) # {}
    /\ \A i \in GameHeaders(document) :
            /\ HasKey(Item(document, "resultSets").items[i], "rowSet")
            /\ Item(Item(document, "resultSets").items[i], "rowSet").t = "list"

UpstreamGames(document) ==
    IF IsLiveScoreboard(document) THEN Item(Item(document, "scoreboard"), "games").items
    ELSE LET first == CHOOSE i \in GameHeaders(document) : \A j \in GameHeaders(document) : i <= j
         IN  Item(Item(document, "resultSets").items[first], "rowSet").items

\* The game id an upstream game carries, as text; the empty text when it
\* carries none.
GameIdOf(game) ==
    IF game.t = "dict" THEN PyStr(Get(game, "gameId", Str(<<>>)))
    ELSE IF game.t = "list" /\ game.items # <<>> THEN PyStr(game.items[1])
    ELSE Str(<<>>)

\* C25: in a schedule payload made from a scoreboard of either shape the
\* entries are those of the upstream games that carry a game id, in order,
\* an upstream game without one having no entry, and the id of each entry
\* is nba_game_id_to_uuid of the nba_game_id of that entry.
C25_EntryIdDerived ==
    ( /\ call.fn = "transform_scoreboard_to_schedule"
      /\ call.result.ok
      /\ IsLiveScoreboard(call.arg) \/ IsStatsScoreboard(call.arg) ) =>
        LET HasId(game) == GameIdOf(game) # Str(<<>>)
            with_id == SelectSeq(UpstreamGames(call.arg), HasId)
            entries == Item(call.result.value, "games").items
        IN  /\ Len(entries) = Len(with_id)
            /\ \A i \in 1..Len(entries) :
                /\ Item(entries[i], "nba_game_id") = GameIdOf(with_id[i])
                /\ Item(entries[i], "id")
                     = Str(nba_game_id_to_uuid(Item(entries[i], "nba_game_id").s).value)

\* A live scoreboard of two games, one of them without a game id, gave one
\* entry.
C25_Witness ==
    /\ call.fn = "transform_scoreboard_to_schedule"
    /\ call.arg = ScoreboardFinal
    /\ call.result.ok
    /\ Len(Item(call.result.value, "games").items) = 1
    /\ Item(Item(call.result.value, "games").items[1], "id") = Str(UuidA)

(***************************************************************************)
(* Claims about the client (checked under SpecClient)                      *)
(***************************************************************************)
\* The games the live scoreboard lists now; none when it does not answer.
ListedGames ==
    IF nba_api.live_scoreboard.ok
    THEN Item(Item(nba_api.live_scoreboard.value, "scoreboard"), "games").items
    ELSE <<>>

\* The places of the list that hold a game whose gameId reads game_id.
Matches(game_id) ==
    {i \in 1..Len(ListedGames) :
        /\ ListedGames[i].t = "dict"
        /\ HasKey(ListedGames[i], "gameId")
        /\ Cat(PyStr(Item(ListedGames[i], "gameId")).s) = Cat(game_id.s)}

FirstMatch(game_id) == CHOOSE i \in Matches(game_id) : \A j \in Matches(game_id) : i <= j

\* The data sources of a game summary, in the order of the claim.
SummarySources ==
    <<"live scoreboard", "live boxscore", "BoxScoreSummaryV2",
      "BoxScoreTraditionalV2", "BoxScoreV2", "BoxScore">>

\* What the n-th source gives for game_id when it is asked.
SourceOutcome(n, game_id) ==
    CASE n = 1 -> nba_api.live_scoreboard
      [] n = 2 -> ForGame(nba_api.live_boxscore, game_id)
      [] n = 3 -> ForGame(nba_api.summary_v2, game_id)
      [] OTHER -> ForGame(nba_api.stats[SummarySources[n]].out, game_id)

\* The n-th source can be asked: a stats class the library lacks cannot.
CanBeAsked(n) == n <= 3 \/ nba_api.stats[SummarySources[n]].exists

\* The n-th source succeeds; the live scoreboard succeeds when it holds the
\* game and no entry before the game makes the search fail.
SourceSucceeds(n, game_id) ==
    IF n = 1
    THEN /\ Matches(game_id) # {}
         /\ \A j \in 1..(FirstMatch(game_id) - 1) : ListedGames[j].t = "dict"
    ELSE CanBeAsked(n) /\ SourceOutcome(n, game_id).ok

\* The sources asked when the n-th is the last one asked.
AskedUpTo(n) ==
    LET Asked(name) == \E i \in 1..n : SummarySources[i] = name /\ CanBeAsked(i)
    IN  SelectSeq(SummarySources, Asked)

\* C21: get_game_summary asks its sources in the fixed order and stops at
\* the first that succeeds: it returns what that source gave after asking
\* exactly the sources up to it, and when no source succeeds it raises after
\* asking them all.
C21_FirstSourceThatSucceeds ==
    call.fn = "NBAApiClient.get_game_summary" =>
        LET first == {n \in 1..6 :
                        /\ SourceSucceeds(n, call.arg)
                        /\ \A m \in 1..(n - 1) : ~SourceSucceeds(m, call.arg)}
        IN  IF first = {}
            THEN ~call.result.ok /\ call.tried = AskedUpTo(6)
            ELSE \A n \in first :
                    /\ call.result.ok
                    /\ call.tried = AskedUpTo(n)
                    /\ IF n = 1
                       THEN Get(call.result.value, "_source", Null) = Str(<<"live_scoreboard">>)
                       ELSE call.result = SourceOutcome(n, call.arg)

\* The second fallback class answered after five sources had failed; the
\* last class was not asked.
C21_Witness ==
    /\ call.fn = "NBAApiClient.get_game_summary"
    /\ call.tried = <<"live scoreboard", "live boxscore", "BoxScoreSummaryV2",
                      "BoxScoreTraditionalV2", "BoxScoreV2">>
    /\ call.result = Return(StatsBoxscore("boxscorev2"))
    /\ nba_api.stats["BoxScore"].out.ok

\* The data sources of play-by-play, in the order of the claim.
PbpSources ==
    <<"live PlayByPlay", "PlayByPlayV2 (all periods)", "PlayByPlayV2 (periods 1-4)", "PlayByPlay">>

\* What the n-th source gives for game_id.
PbpOutcome(n, game_id) ==
    IF n = 1 THEN ForGame(nba_api.live_pbp, game_id)
    ELSE ForGame(nba_api.stats_pbp[PbpSources[n]], game_id)

\* The document holds a non-empty list of plays: the actions of a live
\* document, the rows of the PlayByPlay result set of a stats document.
HoldsPlays(document) ==
    /\ document.t = "dict"
    /\ \/ /\ HasKey(document, "game") /\ Item(document, "game").t = "dict"
          /\ HasKey(Item(document, "game"), "actions")
          /\ Item(Item(document, "game"), "actions").t = "list"
          /\ Item(Item(document, "game"), "actions").items # <<>>
       \/ /\ HasKey(document, "resultSets") /\ Item(document, "resultSets").t = "list"
          /\ \E i \in 1..Len(Item(document, "resultSets").items) :
                LET rs == Item(document, "resultSets").items[i]
                IN  /\ rs.t = "dict" /\ HasKey(rs, "name") /\ HasKey(rs, "rowSet")
                    /\ Item(rs, "name") = Str(<<"PlayByPlay">>)
                    /\ Item(rs, "rowSet").t = "list" /\ Item(rs, "rowSet").items # <<>>

AskedDate(game_date) ==
    (IF game_date.month < 10 THEN "0" ELSE "") \o ToString(game_date.month) \o "/"
    \o (IF game_date.day < 10 THEN "0" ELSE "") \o ToString(game_date.day) \o "/"
    \o ToString(game_date.year)

\* C26: get_scoreboard asks the live scoreboard exactly when no date is
\* given or the date is today's in US Eastern time, and the stats scoreboard
\* of the date given otherwise; it asks one source in a call and gives what
\* that source gave.
C26_LiveIffToday ==
    call.fn = "NBAApiClient.get_scoreboard" =>
        IF call.arg = Null \/ call.arg = today
        THEN call.tried = <<"live ScoreBoard">> /\ call.result = nba_api.live_scoreboard
        ELSE /\ call.tried = <<"ScoreboardV2 " \o AskedDate(call.arg)>>
             /\ call.result = nba_api.scoreboard_v2

\* Today's date was asked for by name while the stats scoreboard was down:
\* the live scoreboard answered.
C26_Witness ==
    /\ call.fn = "NBAApiClient.get_scoreboard"
    /\ call.arg # Null /\ call.arg = today
    /\ ~nba_api.scoreboard_v2.ok
    /\ call.result.ok
    /\ call.tried = <<"live ScoreBoard">>

\* C27: a result of get_game_summary marked as taken from the live
\* scoreboard wraps the first game of the scoreboard list whose gameId, as
\* text, is the game id asked for.
C27_FirstListedGameOfThatId ==
    ( /\ call.fn = "NBAApiClient.get_game_summary"
      /\ call.result.ok
      /\ Get(call.result.value, "_source", Null) = Str(<<"live_scoreboard">>) ) =>
        /\ Matches(call.arg) # {}
        /\ Item(call.result.value, "game") = ListedGames[FirstMatch(call.arg)]
        /\ Cat(PyStr(Item(Item(call.result.value, "game"), "gameId")).s) = Cat(call.arg.s)

\* The scoreboard lists another game, a game without id, and then two
\* entries of the game asked for: the first of the two is wrapped.
C27_Witness ==
    /\ call.fn = "NBAApiClient.get_game_summary"
    /\ call.arg = Str(NbaA)
    /\ nba_api.live_scoreboard = LiveScoreboardOutcomes["game_later"]
    /\ call.result.ok
    /\ Item(call.result.value, "game") = LiveGameFinal

(***************************************************************************)
(* Claims about the schedule endpoint (checked under SpecSchedule)         *)
(***************************************************************************)
\* C28: the schedule endpoint answers 400 only when year, month and day do
\* not form a valid calendar date; a failure of the scoreboard fetch or of
\* the transformation is answered 500.
C28_Only400ForInvalidDate ==
    call.fn = "get_schedule" =>
        /\ call.response.status = 400 =>
                ~IsCalendarDate(call.resource[1], call.resource[2], call.resource[3])
        /\ ( /\ IsCalendarDate(call.resource[1], call.resource[2], call.resource[3])
             /\ call.trace.payload = Null ) => call.response.status = 500

(***************************************************************************)
(* Claims about the summary transformer (checked under SpecTransform)      *)
(***************************************************************************)
\* The two tests transform_boxscore_to_summary makes on its payload.
LiveScoreboardForm(boxscore_data) ==
    /\ Get(boxscore_data, "_source", Null) = Str(<<"live_scoreboard">>)
    /\ Truthy(Get(boxscore_data, "game", Null))

LiveBoxscoreForm(boxscore_data) ==
    /\ Truthy(Get(boxscore_data, "game", Null))
    /\ ~Truthy(Get(boxscore_data, "_source", Null))

\* The status a status text alone is classified as.
StatusOfText(game) ==
    _map_game_status(Get(game, "gameStatusText", Str(<<>>)), Null, Null, Null)

\* C29: for a boxscore payload in neither live-scoreboard nor live-boxscore
\* form (every stats payload with resultSets among them)
\* transform_boxscore_to_summary returns status "inprogress" with empty home
\* and away whatever the payload holds; for a live-boxscore payload the
\* status is classified from the status text alone and home and away stay
\* empty.
C29_StatsAndLiveBoxscoreStub ==
    call.fn = "transform_boxscore_to_summary" =>
        /\ ( /\ ~LiveScoreboardForm(call.arg)
             /\ ~LiveBoxscoreForm(call.arg) ) =>
                call.result = Return(DefaultPayload(call.fn, call.key))
        /\ LiveBoxscoreForm(call.arg) =>
                /\ call.result.ok
                /\ Item(call.result.value, "home") = Dict(<<>>)
                /\ Item(call.result.value, "away") = Dict(<<>>)
                /\ Return(Item(call.result.value, "status"))
                       = StatusOfText(Item(call.arg, "game"))

\* The same statement for the payloads on which the transformer returns.
C29_StubWhenItReturns ==
    (call.fn = "transform_boxscore_to_summary" /\ call.result.ok) =>
        /\ ( /\ ~LiveScoreboardForm(call.arg)
             /\ ~LiveBoxscoreForm(call.arg) ) =>
                call.result = Return(DefaultPayload(call.fn, call.key))
        /\ LiveBoxscoreForm(call.arg) =>
                /\ Item(call.result.value, "home") = Dict(<<>>)
                /\ Item(call.result.value, "away") = Dict(<<>>)
                /\ Return(Item(call.result.value, "status"))
                       = StatusOfText(Item(call.arg, "game"))

(***************************************************************************)
(* Claims about the 304 response (checked under Spec)                      *)
(***************************************************************************)
\* C30: a 304 response of the schedule, summary or play-by-play endpoint is
\* a newly constructed response, not the injected response object on which
\* the ETag and Cache-Control headers were set, so it carries neither the
\* ETag header nor the Cache-Control header.
C30_NotModifiedCarriesNoHeaders ==
    (call.fn \in Endpoints /\ call.response.status = 304) =>
        /\ call.trace.etag # Null
        /\ "ETag" \notin DOMAIN call.response.headers
        /\ "CacheControl" \notin DOMAIN call.response.headers
        /\ call.response = Response304

\* A play-by-play response is revalidated with its ETag and answered 304,
\* after the ETag was computed again and found equal.
C30_Witness ==
    /\ call.fn = "get_play_by_play"
    /\ call.first.status = 200
    /\ call.response.status = 304
    /\ call.trace.etag = Str(<<call.first.ETag>>)
====
